---- MODULE Spec2Model ----
(***************************************************************************)
(* State-machine model of the MMAudio MCP server (src/server/index.js):    *)
(* configuration loading, the call-tool dispatcher and the three tool      *)
(* handlers video_to_audio, text_to_audio and validate_api_key.            *)
(*                                                                         *)
(* JSON values are records [t, s, n]: t is the JavaScript type, s the      *)
(* text of a string, n a number in tenths (fixed point, one decimal        *)
(* digit: 8 is 80, 4.5 is 45), so that integers and non-integers are both  *)
(* representable.  An object is a function from its keys to JSON values,   *)
(* an absent key holding JUndefined.  A message is a sequence of strings,  *)
(* standing for their concatenation.                                       *)
(***************************************************************************)
EXTENDS Integers, Sequences, FiniteSets, TLC

VARIABLES env, config, phase, exitCode, calls

vars == <<env, config, phase, exitCode, calls>>

----------------------------------------------------------------------------
(* JSON values *)

JUndefined == [t |-> "undefined", s |-> "", n |-> 0]

JNull == [t |-> "null", s |-> "", n |-> 0]

JStr(x) == [t |-> "string", s |-> x, n |-> 0]

JNum(whole, tenth) == [t |-> "number", s |-> "", n |-> 10 * whole + tenth]

\* true or false: n is 1 or 0.
JBool(b) == [t |-> "boolean", s |-> "", n |-> IF b THEN 1 ELSE 0]

\* An array, kept by the text of its elements joined with commas (what
\* String(array) gives for an array of strings and numbers).
JArray(joined) == [t |-> "array", s |-> joined, n |-> 0]

\* An object that stands where a scalar is looked for, such as
\* {"message": "boom"}.  Of its members one thing is kept, in n: whether one
\* of them is named toString.
JObject == [t |-> "object", s |-> "", n |-> 0]

\* An object with a member named toString, such as {"toString": 1}: the
\* member of a JSON value is never a function, and it hides
\* Object.prototype.toString.
JObjectOwnToString == [t |-> "object", s |-> "", n |-> 1]

\* An array that holds such an object, such as [{"toString": 1}].
JArrayOwnToString == [t |-> "array", s |-> "", n |-> 1]

\* JavaScript truthiness of a JSON value (used by `a || b`): undefined, null,
\* NaN, "", 0 and false are falsy, every other value is truthy.
Truthy(v) ==
    CASE v.t = "string" -> v.s # ""
      [] v.t \in {"number", "boolean"} -> v.n # 0
      [] v.t \in {"array", "object"} -> TRUE
      [] OTHER -> FALSE

\* String(x) of a number held in tenths.
NumberText(n) ==
    LET a == IF n < 0 THEN -n ELSE n
    IN  (IF n < 0 THEN "-" ELSE "")
        \o ToString(a \div 10)
        \o (IF a % 10 = 0 THEN "" ELSE "." \o ToString(a % 10))

\* The value can be turned into text.  An object is turned into text by its
\* toString, then by its valueOf: with a toString that is no function the
\* inherited valueOf gives the object back, and the conversion throws a
\* TypeError.  An array is turned into text by joining the texts of its
\* elements.
HasText(v) == ~(v.t \in {"object", "array"} /\ v.n = 1)

\* The text a value that has one becomes in a template literal, in
\* `new Error(value)` and in String(value).
ToText(v) ==
    CASE v.t = "string" -> v.s
      [] v.t = "number" -> NumberText(v.n)
      [] v.t = "boolean" -> IF v.n # 0 THEN "true" ELSE "false"
      [] v.t = "array" /\ HasText(v) -> v.s
      [] v.t = "object" /\ HasText(v) -> "[object Object]"
      [] v.t = "nan" -> "NaN"
      [] v.t \in {"undefined", "null"} -> v.t

\* `new URL(s)` succeeds: the strings of the model that are absolute URLs.
UrlStrings ==
    { "https://mmaudio.net", "https://alt.example", "https://cdn.example/v.mp4",
      "https://cdn.example/a.wav", "https://cdn.example/b.wav" }

IsUrl(x) == x \in UrlStrings

----------------------------------------------------------------------------
(* zod: the schema descriptions and the parser *)

\* A field schema.  The record lists the checks in the order zod runs them.
ZBase ==
    [ type |-> "string", minLen |-> 0, minLenMsg |-> "", url |-> FALSE,
      urlMsg |-> "Invalid url", int |-> FALSE, hasMin |-> FALSE, min |-> 0,
      hasMax |-> FALSE, max |-> 0, optional |-> FALSE, nullable |-> FALSE,
      hasDefault |-> FALSE, default |-> JUndefined ]

ZString == ZBase

ZNumber == [ZBase EXCEPT !.type = "number"]

\* The issue zod adds for a failed check: the members of the issue data in
\* the order the check lists them (as lines of JSON text) and the message.
\* pathFirst: the issue data has no message member, so `path` comes before
\* `message` in the issue; otherwise `message` keeps its place and `path`
\* follows.
ZDetail(data, message, pathFirst) ==
    [data |-> data, message |-> message, pathFirst |-> pathFirst]

\* A zod issue: the detail of the failed check at a path.
ZIssue(path, d) ==
    [path |-> path, message |-> d.message, data |-> d.data,
     pathFirst |-> d.pathFirst]

\* zod's message for an invalid_type issue.
InvalidTypeMessage(expected, v) ==
    IF v.t = "undefined" THEN "Required"
    ELSE "Expected " \o expected \o ", received " \o v.t

\* The invalid_type issue of a value of the wrong type.
InvalidType(expected, v) ==
    ZDetail(<<"\"code\": \"invalid_type\"",
              "\"expected\": \"" \o expected \o "\"",
              "\"received\": \"" \o v.t \o "\"">>,
            InvalidTypeMessage(expected, v), TRUE)

\* The too_small / too_big issue of a min or max check.
OutOfRange(code, boundKey, bound, type, message) ==
    ZDetail(<<"\"code\": \"" \o code \o "\"",
              "\"" \o boundKey \o "\": " \o ToString(bound),
              "\"type\": \"" \o type \o "\"",
              "\"inclusive\": true",
              "\"exact\": false">>,
            message, FALSE)

\* The invalid_string issue of the url check.
InvalidUrl(message) ==
    ZDetail(<<"\"validation\": \"url\"", "\"code\": \"invalid_string\"">>,
            message, FALSE)

\* The invalid_type issue of the int check.
NotInteger ==
    ZDetail(<<"\"code\": \"invalid_type\"", "\"expected\": \"integer\"",
              "\"received\": \"float\"">>,
            "Expected integer, received float", FALSE)

\* z.string() with its checks; every failing check adds an issue.
ParseString(f, v) ==
    IF v.t # "string" THEN <<InvalidType("string", v)>>
    ELSE (IF Len(v.s) < f.minLen
          THEN <<OutOfRange("too_small", "minimum", f.minLen, "string",
                            f.minLenMsg)>>
          ELSE <<>>)
         \o (IF f.url /\ ~IsUrl(v.s) THEN <<InvalidUrl(f.urlMsg)>> ELSE <<>>)

\* ParseNumber with the upper bound taken as exclusive.
ParseNumberExclusiveMax(f, v) ==
    IF v.t # "number" THEN <<InvalidType("number", v)>>
    ELSE (IF f.int /\ v.n % 10 # 0 THEN <<NotInteger>> ELSE <<>>)
         \o (IF f.hasMin /\ v.n < 10 * f.min
             THEN <<OutOfRange("too_small", "minimum", f.min, "number",
                               "Number must be greater than or equal to "
                                   \o ToString(f.min))>>
             ELSE <<>>)
         \o (IF f.hasMax /\ v.n >= 10 * f.max
             THEN <<OutOfRange("too_big", "maximum", f.max, "number",
                               "Number must be less than or equal to "
                                   \o ToString(f.max))>>
             ELSE <<>>)

\* z.number() with its checks (int, min, max); every failing check adds an issue.
ParseNumber(f, v) ==
    IF v.t # "number" THEN <<InvalidType("number", v)>>
    ELSE (IF f.int /\ v.n % 10 # 0 THEN <<NotInteger>> ELSE <<>>)
         \o (IF f.hasMin /\ v.n < 10 * f.min
             THEN <<OutOfRange("too_small", "minimum", f.min, "number",
                               "Number must be greater than or equal to "
                                   \o ToString(f.min))>>
             ELSE <<>>)
         \o (IF f.hasMax /\ v.n > 10 * f.max
             THEN <<OutOfRange("too_big", "maximum", f.max, "number",
                               "Number must be less than or equal to "
                                   \o ToString(f.max))>>
             ELSE <<>>)

\* The value a field schema parses (after .default()).
FieldValue(f, v) == IF f.hasDefault /\ v.t = "undefined" THEN f.default ELSE v

\* The issues a field schema raises on a value, in the order of its checks.
FieldIssues(f, v) ==
    LET d == FieldValue(f, v)
    IN  IF f.nullable /\ d.t = "null" THEN <<>>
        ELSE IF f.optional /\ d.t = "undefined" THEN <<>>
        ELSE IF f.type = "string" THEN ParseString(f, d)
        ELSE ParseNumber(f, d)

\* path.join('.') of a zod issue path.
RECURSIVE JoinPath(_)
JoinPath(path) ==
    IF path = <<>> THEN ""
    ELSE IF Len(path) = 1 THEN path[1]
    ELSE path[1] \o "." \o JoinPath(Tail(path))

\* The issues of z.object(shape) on the fields of an object, in shape order.
\* shape is a sequence of [key, schema]; prefix is the path of the object.
RECURSIVE ObjectIssues(_, _, _)
ObjectIssues(shape, obj, prefix) ==
    IF shape = <<>> THEN <<>>
    ELSE LET k == shape[1].key
             msgs == FieldIssues(shape[1].schema, obj[k])
         IN  [j \in 1..Len(msgs) |-> ZIssue(Append(prefix, k), msgs[j])]
             \o ObjectIssues(Tail(shape), obj, prefix)

\* ObjectValue without the defaults.
ObjectValueNoDefaults(shape, obj) ==
    [k \in {shape[j].key : j \in 1..Len(shape)} |-> obj[k]]

\* The output of z.object(shape): the shape's keys with defaults applied
\* (unknown keys are stripped).
ObjectValue(shape, obj) ==
    [k \in {shape[j].key : j \in 1..Len(shape)} |->
        LET j == CHOOSE j \in 1..Len(shape) : shape[j].key = k
        IN  FieldValue(shape[j].schema, obj[k])]

----------------------------------------------------------------------------
(* The schemas of src/server/index.js *)

Field(key, schema) == [key |-> key, schema |-> schema]

ConfigSchema ==
    << Field("apiKey", [ZString EXCEPT !.minLen = 1,
                                       !.minLenMsg = "API key is required"]),
       Field("baseUrl", [ZString EXCEPT !.url = TRUE, !.hasDefault = TRUE,
                                        !.default = JStr("https://mmaudio.net")]),
       Field("timeout", [ZNumber EXCEPT !.hasMin = TRUE, !.min = 5000,
                                        !.hasMax = TRUE, !.max = 300000,
                                        !.hasDefault = TRUE,
                                        !.default = JNum(60000, 0)]) >>

VideoToAudioInputSchema ==
    << Field("video_url", [ZString EXCEPT !.url = TRUE,
                                          !.urlMsg = "Invalid video URL"]),
       Field("prompt", [ZString EXCEPT !.minLen = 1,
                                       !.minLenMsg = "Prompt is required"]),
       Field("negative_prompt", [ZString EXCEPT !.optional = TRUE,
                                                !.hasDefault = TRUE,
                                                !.default = JStr("")]),
       Field("seed", [ZNumber EXCEPT !.int = TRUE, !.optional = TRUE,
                                     !.nullable = TRUE]),
       Field("num_steps", [ZNumber EXCEPT !.int = TRUE, !.hasMin = TRUE,
                                          !.min = 1, !.hasMax = TRUE, !.max = 50,
                                          !.hasDefault = TRUE,
                                          !.default = JNum(25, 0)]),
       Field("duration", [ZNumber EXCEPT !.hasMin = TRUE, !.min = 1,
                                         !.hasMax = TRUE, !.max = 30,
                                         !.hasDefault = TRUE,
                                         !.default = JNum(8, 0)]),
       Field("cfg_strength", [ZNumber EXCEPT !.hasMin = TRUE, !.min = 1,
                                             !.hasMax = TRUE, !.max = 10,
                                             !.hasDefault = TRUE,
                                             !.default = JNum(4, 5)]) >>

TextToAudioInputSchema ==
    << Field("prompt", [ZString EXCEPT !.minLen = 1,
                                       !.minLenMsg = "Prompt is required"]),
       Field("duration", [ZNumber EXCEPT !.hasMin = TRUE, !.min = 1,
                                         !.hasMax = TRUE, !.max = 30,
                                         !.hasDefault = TRUE,
                                         !.default = JNum(8, 0)]),
       Field("num_steps", [ZNumber EXCEPT !.int = TRUE, !.hasMin = TRUE,
                                          !.min = 1, !.hasMax = TRUE, !.max = 50,
                                          !.hasDefault = TRUE,
                                          !.default = JNum(25, 0)]),
       Field("cfg_strength", [ZNumber EXCEPT !.hasMin = TRUE, !.min = 1,
                                             !.hasMax = TRUE, !.max = 10,
                                             !.hasDefault = TRUE,
                                             !.default = JNum(4, 5)]),
       Field("negative_prompt", [ZString EXCEPT !.optional = TRUE,
                                                !.hasDefault = TRUE,
                                                !.default = JStr("")]),
       Field("seed", [ZNumber EXCEPT !.int = TRUE, !.optional = TRUE,
                                     !.hasDefault = TRUE,
                                     !.default = JNum(0, 0)]) >>

AudioResponseSchema ==
    << Field("url", [ZString EXCEPT !.url = TRUE]),
       Field("content_type", ZString),
       Field("file_name", ZString),
       Field("file_size", ZNumber) >>

\* The key of the nested descriptor: VideoToAudioResponseSchema has `video`,
\* TextToAudioResponseSchema has `audio`.
ResponseKey(tool) == IF tool = "video_to_audio" THEN "video" ELSE "audio"

\* The issues of z.object({<key>: AudioResponseSchema}) on a parsed body.
\* json is [t, error, audio, video]; a descriptor is [t, f].
ResponseIssues(tool, json) ==
    LET key == ResponseKey(tool)
        desc == json[key]
    IN  IF json.t # "object"
        THEN <<ZIssue(<<>>, InvalidType("object", json))>>
        ELSE IF desc.t # "object"
        THEN <<ZIssue(<<key>>, InvalidType("object", desc))>>
        ELSE ObjectIssues(AudioResponseSchema, desc.f, <<key>>)

InputSchema(tool) ==
    IF tool = "video_to_audio" THEN VideoToAudioInputSchema
    ELSE TextToAudioInputSchema

\* The issues of <Tool>InputSchema.parse(args); args is [given, obj].
InputIssues(tool, args) ==
    IF ~args.given
    THEN <<ZIssue(<<>>, InvalidType("object", JUndefined))>>
    ELSE ObjectIssues(InputSchema(tool), args.obj, <<>>)

\* `input`, the value <Tool>InputSchema.parse(args) returns.
ParsedInput(tool, args) == ObjectValue(InputSchema(tool), args.obj)

\* JSON.stringify(obj): the key/value pairs, keys holding undefined left out.
JSONStringify(obj) ==
    { <<k, obj[k]>> : k \in {x \in DOMAIN obj : obj[x].t # "undefined"} }

----------------------------------------------------------------------------
(* Errors and results *)

\* A thrown exception: its class, the MCP error code (of an McpError) and
\* the message given to the constructor.
Thrown(class, code, message) ==
    [kind |-> "throw", class |-> class, code |-> code, message |-> message]

McpError(code, message) == Thrown("McpError", code, message)

\* A value returned by a handler: {content: [{type: 'text', text:
\* JSON.stringify(envelope)}]}.
Returned(envelope) == [kind |-> "return", envelope |-> envelope]

NoOutcome == [kind |-> "none"]

\* The TypeError of turning into text a value that has none (V8's wording).
NoPrimitiveError ==
    Thrown("TypeError", "", <<"Cannot convert object to primitive value">>)

\* IssueList with the messages alone, the paths left out.
RECURSIVE IssueListNoPath(_)
IssueListNoPath(issues) ==
    IF issues = <<>> THEN <<>>
    ELSE <<issues[1].message>>
         \o (IF Len(issues) > 1 THEN <<", ">> ELSE <<>>)
         \o IssueListNoPath(Tail(issues))

\* The segments of error.errors.map(e => `${e.path.join('.')}: ${e.message}`)
\* .join(', ').
RECURSIVE IssueList(_)
IssueList(issues) ==
    IF issues = <<>> THEN <<>>
    ELSE <<JoinPath(issues[1].path), ": ", issues[1].message>>
         \o (IF Len(issues) > 1 THEN <<", ">> ELSE <<>>)
         \o IssueList(Tail(issues))

\* The lines of a path in JSON.stringify(issues, null, 2).
RECURSIVE PathJson(_)
PathJson(path) ==
    IF path = <<>> THEN <<>>
    ELSE <<"      \"", path[1], IF Len(path) > 1 THEN "\",\n" ELSE "\"\n">>
         \o PathJson(Tail(path))

\* One issue in JSON.stringify(issues, null, 2): the members of the issue
\* data, then path and message in the order makeIssue leaves them.
IssueJson(issue) ==
    LET members == [j \in 1..Len(issue.data) |-> "    " \o issue.data[j] \o ",\n"]
        path == IF issue.path = <<>> THEN <<"    \"path\": []">>
                ELSE <<"    \"path\": [\n">> \o PathJson(issue.path) \o <<"    ]">>
        message == <<"    \"message\": \"", issue.message, "\"">>
    IN  <<"  {\n">> \o members
        \o (IF issue.pathFirst THEN path \o <<",\n">> \o message
            ELSE message \o <<",\n">> \o path)
        \o <<"\n  }">>

RECURSIVE IssuesJson(_)
IssuesJson(issues) ==
    IF issues = <<>> THEN <<>>
    ELSE IssueJson(issues[1])
         \o (IF Len(issues) > 1 THEN <<",\n">> ELSE <<>>)
         \o IssuesJson(Tail(issues))

\* error.message of a ZodError: JSON.stringify(this.issues, null, 2), as the
\* segments of the text (the messages here hold no character JSON escapes).
ZodErrorMessage(issues) ==
    IF issues = <<>> THEN <<"[]">>
    ELSE <<"[\n">> \o IssuesJson(issues) \o <<"\n]">>

\* ZodErrorToMcp reporting error.errors[0] alone.
ZodErrorFirstOnly(issues) ==
    McpError("InvalidParams",
             <<"Invalid input parameters: ">> \o IssueList(<<issues[1]>>))

\* The catch blocks of the generation handlers: a ZodError becomes an
\* McpError(InvalidParams), whatever schema raised it.
ZodErrorToMcp(issues) ==
    McpError("InvalidParams", <<"Invalid input parameters: ">> \o IssueList(issues))

----------------------------------------------------------------------------
(* Configuration *)

\* An environment variable: unset, or a string.  The timeout variables hold
\* their text as a sequence of characters, which parseInt reads.
EnvUnset == JUndefined

EnvStr(x) == JStr(x)

EnvCharsUnset == [t |-> "undefined", c |-> <<>>]

EnvChars(c) == [t |-> "string", c |-> c]

Digits == {"0", "1", "2", "3", "4", "5", "6", "7", "8", "9"}

DigitValue(c) ==
    CASE c = "0" -> 0 [] c = "1" -> 1 [] c = "2" -> 2 [] c = "3" -> 3
      [] c = "4" -> 4 [] c = "5" -> 5 [] c = "6" -> 6 [] c = "7" -> 7
      [] c = "8" -> 8 [] c = "9" -> 9

\* The value of the leading digits of c, after acc.
RECURSIVE LeadingDigits(_, _)
LeadingDigits(c, acc) ==
    IF c = <<>> \/ Head(c) \notin Digits THEN acc
    ELSE LeadingDigits(Tail(c), 10 * acc + DigitValue(Head(c)))

\* The white space parseInt skips before the number: every StrWhiteSpaceChar
\* of ECMAScript, the white space (tab, vertical tab, form feed, space,
\* no-break space, zero width no-break space and the other space separators)
\* and the line terminators (line feed, carriage return, line separator,
\* paragraph separator).  A character that a string of the model cannot hold
\* is written by its code point, U+xxxx.
WhiteSpace ==
    { "\t", "U+000B", "\f", " ", "U+00A0", "U+FEFF",
      "U+1680", "U+2000", "U+2001", "U+2002", "U+2003", "U+2004", "U+2005",
      "U+2006", "U+2007", "U+2008", "U+2009", "U+200A", "U+202F", "U+205F",
      "U+3000",
      "\n", "\r", "U+2028", "U+2029" }

HexDigits ==
    Digits \cup {"a", "b", "c", "d", "e", "f", "A", "B", "C", "D", "E", "F"}

HexValue(c) ==
    CASE c \in Digits -> DigitValue(c)
      [] c \in {"a", "A"} -> 10 [] c \in {"b", "B"} -> 11
      [] c \in {"c", "C"} -> 12 [] c \in {"d", "D"} -> 13
      [] c \in {"e", "E"} -> 14 [] c \in {"f", "F"} -> 15

RECURSIVE SkipWhiteSpace(_)
SkipWhiteSpace(c) ==
    IF c # <<>> /\ Head(c) \in WhiteSpace THEN SkipWhiteSpace(Tail(c)) ELSE c

\* The value of the leading hexadecimal digits of c, after acc.
RECURSIVE LeadingHexDigits(_, _)
LeadingHexDigits(c, acc) ==
    IF c = <<>> \/ Head(c) \notin HexDigits THEN acc
    ELSE LeadingHexDigits(Tail(c), 16 * acc + HexValue(Head(c)))

\* parseInt(text) with no radix: leading white space is skipped, then an
\* optional sign, then the leading digits, in radix 16 after a 0x or 0X
\* prefix and in radix 10 otherwise; NaN when there is no digit.
ParseInt(c) ==
    LET s == SkipWhiteSpace(c)
        neg == s # <<>> /\ Head(s) = "-"
        body == IF s # <<>> /\ Head(s) \in {"-", "+"} THEN Tail(s) ELSE s
        hex == Len(body) >= 2 /\ body[1] = "0" /\ body[2] \in {"x", "X"}
        digits == IF hex THEN Tail(Tail(body)) ELSE body
        sign == IF neg THEN -1 ELSE 1
    IN  IF digits = <<>> \/ Head(digits) \notin (IF hex THEN HexDigits ELSE Digits)
        THEN [t |-> "nan", s |-> "", n |-> 0]
        ELSE JNum(sign * (IF hex THEN LeadingHexDigits(digits, 0)
                          ELSE LeadingDigits(digits, 0)), 0)

\* a || b
Or(a, b) == IF Truthy(a) THEN a ELSE b

OrChars(a, b) == IF a.t = "string" /\ a.c # <<>> THEN a ELSE b

\* The object loadConfig builds from process.env (lines 95-99).
RawConfig(e) ==
    [ apiKey  |-> Or(e.MMAUDIO_API_KEY, e.apiKey),
      baseUrl |-> Or(Or(e.MMAUDIO_BASE_URL, e.baseUrl), JStr("https://mmaudio.net")),
      timeout |-> ParseInt(OrChars(OrChars(e.MMAUDIO_TIMEOUT, e.timeout),
                                   EnvChars(<<"6", "0", "0", "0", "0">>)).c) ]

ConfigNull == [loaded |-> FALSE, apiKey |-> "", baseUrl |-> "", timeout |-> 0]

\* LoadConfig with a timeout that is brought into [5000, 300000] rather
\* than checked.
LoadConfigClamped(e) ==
    LET given == RawConfig(e)
        raw == [given EXCEPT !.timeout =
                   IF @.t # "number" THEN @
                   ELSE IF @.n < 50000 THEN JNum(5000, 0)
                   ELSE IF @.n > 3000000 THEN JNum(300000, 0)
                   ELSE @]
        issues == ObjectIssues(ConfigSchema, raw, <<>>)
        parsed == ObjectValue(ConfigSchema, raw)
    IN  IF issues # <<>>
        THEN [ok |-> FALSE, config |-> ConfigNull,
              error |-> McpError("InvalidRequest",
                                 <<"Configuration error: ">>
                                     \o ZodErrorMessage(issues))]
        ELSE [ok |-> TRUE,
              config |-> [loaded |-> TRUE, apiKey |-> parsed.apiKey.s,
                          baseUrl |-> parsed.baseUrl.s,
                          timeout |-> parsed.timeout.n \div 10],
              error |-> NoOutcome]

\* loadConfig(): the configuration it stores, or the McpError it throws.
\* The message is `Configuration error: ` followed by error.message of the
\* ZodError, the JSON text of its issues.
LoadConfig(e) ==
    LET raw == RawConfig(e)
        issues == ObjectIssues(ConfigSchema, raw, <<>>)
        parsed == ObjectValue(ConfigSchema, raw)
    IN  IF issues # <<>>
        THEN [ok |-> FALSE, config |-> ConfigNull,
              error |-> McpError("InvalidRequest",
                                 <<"Configuration error: ">>
                                     \o ZodErrorMessage(issues))]
        ELSE [ok |-> TRUE,
              config |-> [loaded |-> TRUE, apiKey |-> parsed.apiKey.s,
                          baseUrl |-> parsed.baseUrl.s,
                          timeout |-> parsed.timeout.n \div 10],
              error |-> NoOutcome]

\* ensureConfigured(): loadConfig() when this.config is null.
EnsureConfigured(cfg, e) ==
    IF cfg.loaded THEN [ok |-> TRUE, config |-> cfg, error |-> NoOutcome]
    ELSE LoadConfig(e)

----------------------------------------------------------------------------
(* The upstream API as the handlers see it *)

\* A descriptor of a response body: [t, f], f its four fields.
Desc(url, contentType, fileName, fileSize) ==
    [t |-> "object",
     f |-> [url |-> url, content_type |-> contentType, file_name |-> fileName,
            file_size |-> fileSize]]

NoDesc ==
    [t |-> "undefined",
     f |-> [url |-> JUndefined, content_type |-> JUndefined,
            file_name |-> JUndefined, file_size |-> JUndefined]]

\* What JSON.parse makes of a body: [t, error, audio, video, credits].
JsonObject(error, audio, video, credits) ==
    [t |-> "object", error |-> error, audio |-> audio, video |-> video,
     credits |-> credits]

JsonOther(t) ==
    [t |-> t, error |-> JUndefined, audio |-> NoDesc, video |-> NoDesc,
     credits |-> JUndefined]

\* A response body: its text, whether JSON.parse accepts it, and the value.
Body(text, json) == [text |-> text, parses |-> TRUE, json |-> json, error |-> ""]

\* A body that is not JSON, with the message of the SyntaxError JSON.parse
\* throws on it (the text is V8's, here in the wording of Node 20).
TextBody(text, error) ==
    [text |-> text, parses |-> FALSE, json |-> JsonOther("invalid"), error |-> error]

DescA ==
    Desc(JStr("https://cdn.example/a.wav"), JStr("audio/wav"), JStr("a.wav"),
         JNum(1024, 0))

DescB ==
    Desc(JStr("https://cdn.example/b.wav"), JStr("audio/mpeg"), JStr("b.mp3"),
         JNum(0, 5))

DescNoSize == [DescA EXCEPT !.f.file_size = JUndefined]

DescTextSize == [DescA EXCEPT !.f.file_size = JStr("1024")]

DescBadUrl == [DescA EXCEPT !.f.url = JStr("not a url")]

TextA ==
    "{\"url\":\"https://cdn.example/a.wav\",\"content_type\":\"audio/wav\","
    \o "\"file_name\":\"a.wav\""

\* The bodies the upstream answers with.
Bodies ==
    { Body("{\"audio\":" \o TextA \o ",\"file_size\":1024},\"video\":" \o TextA
           \o ",\"file_size\":1024}}",
           JsonObject(JUndefined, DescA, DescA, JUndefined)),
      Body("{\"audio\":{\"url\":\"https://cdn.example/b.wav\",\"content_type\":"
           \o "\"audio/mpeg\",\"file_name\":\"b.mp3\",\"file_size\":0.5}}",
           JsonObject(JUndefined, DescB, NoDesc, JUndefined)),
      Body("{\"audio\":" \o TextA \o "},\"video\":" \o TextA \o "}}",
           JsonObject(JUndefined, DescNoSize, DescNoSize, JUndefined)),
      Body("{\"audio\":" \o TextA \o ",\"file_size\":\"1024\"},\"video\":" \o TextA
           \o ",\"file_size\":\"1024\"}}",
           JsonObject(JUndefined, DescTextSize, DescTextSize, JUndefined)),
      Body("{\"audio\":{\"url\":\"not a url\",\"content_type\":\"audio/wav\","
           \o "\"file_name\":\"a.wav\",\"file_size\":1024},\"video\":{\"url\":"
           \o "\"not a url\",\"content_type\":\"audio/wav\",\"file_name\":"
           \o "\"a.wav\",\"file_size\":1024}}",
           JsonObject(JUndefined, DescBadUrl, DescBadUrl, JUndefined)),
      Body("{\"error\":\"boom\"}",
           JsonObject(JStr("boom"), NoDesc, NoDesc, JUndefined)),
      Body("{\"error\":5}",
           JsonObject(JNum(5, 0), NoDesc, NoDesc, JUndefined)),
      Body("{\"error\":{\"message\":\"boom\"}}",
           JsonObject(JObject, NoDesc, NoDesc, JUndefined)),
      Body("{\"error\":{\"toString\":1}}",
           JsonObject(JObjectOwnToString, NoDesc, NoDesc, JUndefined)),
      Body("{\"credits\":100}",
           JsonObject(JUndefined, NoDesc, NoDesc, JNum(100, 0))),
      Body("null", JsonOther("null")),
      TextBody("<html>Bad Gateway</html>",
               "Unexpected token '<', \"<html>Bad \"... is not valid JSON"),
      TextBody("", "Unexpected end of JSON input") }

Statuses == {200, 401, 403, 429, 500}

\* The reasons node-fetch gives when no response arrives.
TransportFailures == {"connect ECONNREFUSED", "getaddrinfo ENOTFOUND", "ETIMEDOUT"}

\* The messages of the errors a body stream fails with while it is read.
BodyFailures == {"socket hang up"}

\* A response whose body has arrived whole.
Response(status, body) ==
    [kind |-> "response", status |-> status, text |-> body.text,
     parses |-> body.parses, json |-> body.json, error |-> body.error,
     reason |-> ""]

\* A fetch that was rejected: no response.
Rejected(reason) ==
    [kind |-> "reject", status |-> 0, text |-> "", parses |-> FALSE,
     json |-> JsonOther("invalid"), error |-> "", reason |-> reason]

\* The response fetch resolves with: the status line and the headers, the
\* body still to come.
Headers(status) ==
    [kind |-> "headers", status |-> status, text |-> "", parses |-> FALSE,
     json |-> JsonOther("invalid"), error |-> "", reason |-> ""]

\* A response whose body stream failed while response.text() or
\* response.json() read it.
BodyFailed(status, reason) ==
    [kind |-> "failed", status |-> status, text |-> "", parses |-> FALSE,
     json |-> JsonOther("invalid"), error |-> "", reason |-> reason]

NoResponse ==
    [kind |-> "none", status |-> 0, text |-> "", parses |-> FALSE,
     json |-> JsonOther("invalid"), error |-> "", reason |-> ""]

\* How `await fetch(...)` settles.
FetchOutcomes ==
    {Headers(st) : st \in Statuses} \cup {Rejected(r) : r \in TransportFailures}

\* How the read of a body ends.
Arrivals ==
    {Response(st, b) : st \in Statuses, b \in Bodies}
        \cup {BodyFailed(st, r) : st \in Statuses, r \in BodyFailures}

\* How a request ends.
Upstream == Arrivals \cup {Rejected(r) : r \in TransportFailures}

\* response.ok
Ok(resp) == resp.status >= 200 /\ resp.status <= 299

\* The FetchError of a fetch that got no response.
TransportError(req, resp) ==
    Thrown("FetchError", "", <<"request to ", req.url, " failed, reason: ", resp.reason>>)

\* The error response.text() or response.json() rejects with when the body
\* stream fails: node-fetch 3 reads the stream in consumeBody, which catches
\* the error of the stream and throws a FetchError in its place, with the
\* URL of the response and the message of the stream's error.
BodyError(req, resp) ==
    Thrown("FetchError", "",
           <<"Invalid response body while trying to fetch ", req.url, ": ",
             resp.reason>>)

\* The SyntaxError of response.json() on a body that is not JSON: node-fetch
\* 3's json() is JSON.parse(await this.text()).
InvalidJsonError(resp) == Thrown("SyntaxError", "", <<resp.error>>)

----------------------------------------------------------------------------
(* The generation handlers: handleVideoToAudio and handleTextToAudio *)

GenerationTools == {"video_to_audio", "text_to_audio"}

NoRequest ==
    [method |-> "", url |-> "", authorization |-> "", body |-> {}, timeout |-> 0]

\* The fetch of a generation handler (lines 280-289 and 359-368).
GenerationRequest(tool, cfg, input) ==
    [method |-> "POST",
     url |-> cfg.baseUrl \o (IF tool = "video_to_audio" THEN "/api/video-to-audio"
                             ELSE "/api/text-to-audio"),
     authorization |-> "Bearer " \o cfg.apiKey,
     body |-> JSONStringify(input),
     timeout |-> cfg.timeout]

\* errorMessage at the throw of line 310 (lines 293-300): the body's `error`
\* when the body is JSON and has a truthy one, whatever its type; the body
\* text when the body is not JSON (or is null: reading .error throws) and is
\* not empty; `HTTP <status>` otherwise.
UpstreamErrorMessage(resp) ==
    LET fallback == JStr("HTTP " \o ToString(resp.status))
    IN  IF resp.parses /\ resp.json.t # "null"
        THEN (IF Truthy(resp.json.error) THEN resp.json.error ELSE fallback)
        ELSE (IF resp.text # "" THEN JStr(resp.text) ELSE fallback)

\* `throw new Error(errorMessage)` (lines 310 and 389): the constructor turns
\* its argument into text, and throws a TypeError itself when it has none.
UpstreamError(resp) ==
    LET errorMessage == UpstreamErrorMessage(resp)
    IN  IF HasText(errorMessage)
        THEN Thrown("Error", "", <<ToText(errorMessage)>>)
        ELSE NoPrimitiveError

\* StatusError without the branch of 403.
StatusErrorNoQuota(tool, resp) ==
    IF resp.status = 401
    THEN McpError("InvalidRequest",
                  <<"Invalid API key. Please check your MMAudio API key.">>)
    ELSE IF resp.status = 429
    THEN McpError("InvalidRequest", <<"Rate limit exceeded. Please try again later.">>)
    ELSE UpstreamError(resp)

\* What a generation handler throws on a non-2xx response (lines 302-310).
StatusError(tool, resp) ==
    IF resp.status = 401
    THEN McpError("InvalidRequest",
                  <<"Invalid API key. Please check your MMAudio API key.">>)
    ELSE IF resp.status = 403
    THEN McpError("InvalidRequest",
                  <<IF tool = "video_to_audio"
                    THEN "Insufficient credits for video-to-audio generation."
                    ELSE "Insufficient credits for text-to-audio generation.">>)
    ELSE IF resp.status = 429
    THEN McpError("InvalidRequest", <<"Rate limit exceeded. Please try again later.">>)
    ELSE UpstreamError(resp)

\* GenerationEnvelope echoing the default duration, not the request's.
GenerationEnvelopeFixedDuration(tool, input, validated) ==
    [success |-> TRUE,
     message |-> IF tool = "video_to_audio"
                 THEN "Audio generated successfully from video"
                 ELSE "Audio generated successfully from text",
     result |-> [audio_url |-> validated.url,
                 content_type |-> validated.content_type,
                 file_name |-> validated.file_name,
                 file_size |-> validated.file_size,
                 duration |-> JNum(8, 0),
                 prompt |-> input.prompt]]

\* The envelope of a successful generation (lines 318-336 and 397-415).
GenerationEnvelope(tool, input, validated) ==
    [success |-> TRUE,
     message |-> IF tool = "video_to_audio"
                 THEN "Audio generated successfully from video"
                 ELSE "Audio generated successfully from text",
     result |-> [audio_url |-> validated.url,
                 content_type |-> validated.content_type,
                 file_name |-> validated.file_name,
                 file_size |-> validated.file_size,
                 duration |-> input.duration,
                 prompt |-> input.prompt]]

\* What a generation handler ends with, for the way its request ended (lines
\* 280-345 and 359-424): the fetch rejected, the body failed while
\* response.text() (non-2xx) or response.json() (2xx) read it, or the whole
\* response.
GenerationSettle(tool, args, req, resp) ==
    LET input == ParsedInput(tool, args)
        issues == ResponseIssues(tool, resp.json)
    IN  IF resp.kind = "reject" THEN TransportError(req, resp)
        ELSE IF resp.kind = "failed" THEN BodyError(req, resp)
        ELSE IF ~Ok(resp) THEN StatusError(tool, resp)
        ELSE IF ~resp.parses THEN InvalidJsonError(resp)
        ELSE IF issues # <<>> THEN ZodErrorToMcp(issues)
        ELSE Returned(GenerationEnvelope(tool, input,
                 ObjectValue(AudioResponseSchema, resp.json[ResponseKey(tool)].f)))

\* A generation handler up to its fetch (lines 273-289 and 352-368): what it
\* throws, or the request it issues.
GenerationBegin(tool, args, cfg, e) ==
    LET ensured == EnsureConfigured(cfg, e)
        issues == InputIssues(tool, args)
    IN  IF ~ensured.ok
        THEN [config |-> ensured.config, request |-> NoRequest,
              result |-> ensured.error]
        ELSE IF issues # <<>>
        THEN [config |-> ensured.config, request |-> NoRequest,
              result |-> ZodErrorToMcp(issues)]
        ELSE [config |-> ensured.config,
              request |-> GenerationRequest(tool, ensured.config,
                                            ParsedInput(tool, args)),
              result |-> NoOutcome]

----------------------------------------------------------------------------
(* handleValidateApiKey *)

\* The envelope of a failed validation (lines 451-463 and 491-503).
InvalidEnvelope(message, error) ==
    [success |-> FALSE, valid |-> FALSE, message |-> message, error |-> error]

\* ValidateBegin with the configured timeout for its request.
ValidateBeginConfiguredTimeout(args, cfg) ==
    LET apiKey == Or(args.obj.api_key,
                     IF cfg.loaded THEN JStr(cfg.apiKey) ELSE JUndefined)
    IN  IF ~args.given
        THEN [request |-> NoRequest,
              result |-> Thrown("TypeError", "",
                  <<"Cannot read properties of undefined (reading 'api_key')">>)]
        ELSE IF ~Truthy(apiKey)
        THEN [request |-> NoRequest,
              result |-> McpError("InvalidRequest", <<"No API key provided">>)]
        ELSE IF ~HasText(apiKey)
        THEN [request |-> NoRequest,
              result |-> Returned(InvalidEnvelope("Failed to validate API key",
                                                  NoPrimitiveError.message))]
        ELSE [request |->
                  [method |-> "GET",
                   url |-> (IF cfg.loaded /\ cfg.baseUrl # "" THEN cfg.baseUrl
                            ELSE "https://mmaudio.net") \o "/api/credits",
                   authorization |-> "Bearer " \o ToText(apiKey),
                   body |-> {},
                   timeout |-> IF cfg.loaded THEN cfg.timeout ELSE 60000],
              result |-> NoOutcome]

\* handleValidateApiKey up to its fetch (lines 431-448): what it throws or
\* returns, or the request it issues.  The key goes into the Authorization
\* header through a template literal (line 444), inside the try: a key that
\* has no text makes the template throw before fetch is called, and the
\* catch (lines 488-503) returns the envelope of a failed validation.
ValidateBegin(args, cfg) ==
    LET apiKey == Or(args.obj.api_key,
                     IF cfg.loaded THEN JStr(cfg.apiKey) ELSE JUndefined)
    IN  IF ~args.given
        THEN [request |-> NoRequest,
              result |-> Thrown("TypeError", "",
                  <<"Cannot read properties of undefined (reading 'api_key')">>)]
        ELSE IF ~Truthy(apiKey)
        THEN [request |-> NoRequest,
              result |-> McpError("InvalidRequest", <<"No API key provided">>)]
        ELSE IF ~HasText(apiKey)
        THEN [request |-> NoRequest,
              result |-> Returned(InvalidEnvelope("Failed to validate API key",
                                                  NoPrimitiveError.message))]
        ELSE [request |->
                  [method |-> "GET",
                   url |-> (IF cfg.loaded /\ cfg.baseUrl # "" THEN cfg.baseUrl
                            ELSE "https://mmaudio.net") \o "/api/credits",
                   authorization |-> "Bearer " \o ToText(apiKey),
                   body |-> {},
                   timeout |-> 10000],
              result |-> NoOutcome]

\* ValidateSettle with a catch that lets the failure of the fetch through.
ValidateSettleRethrow(req, resp) ==
    IF resp.kind = "reject"
    THEN TransportError(req, resp)
    ELSE IF resp.status = 401
    THEN Returned(InvalidEnvelope("Invalid API key", <<"Authentication failed">>))
    ELSE IF resp.kind = "failed"
    THEN Returned(InvalidEnvelope("Failed to validate API key",
                                  BodyError(req, resp).message))
    ELSE IF ~Ok(resp)
    THEN Returned(InvalidEnvelope("Failed to validate API key",
             <<"HTTP " \o ToString(resp.status), ": ", resp.text>>))
    ELSE IF ~resp.parses
    THEN Returned(InvalidEnvelope("Failed to validate API key",
                                  InvalidJsonError(resp).message))
    ELSE IF resp.json.t = "null"
    THEN Returned(InvalidEnvelope("Failed to validate API key",
             <<"Cannot read properties of null (reading 'credits')">>))
    ELSE Returned([success |-> TRUE, valid |-> TRUE, message |-> "API key is valid",
                   credits |-> Or(resp.json.credits, JStr("Unknown")),
                   account_status |-> "Active"])

\* ValidateSettle that takes the key for bad on a 401 alone: any other
\* status with a JSON body counts as an answer for a valid key.
ValidateSettleOptimistic(req, resp) ==
    IF resp.kind = "reject"
    THEN Returned(InvalidEnvelope("Failed to validate API key",
                                  TransportError(req, resp).message))
    ELSE IF resp.status = 401
    THEN Returned(InvalidEnvelope("Invalid API key", <<"Authentication failed">>))
    ELSE IF resp.kind = "failed"
    THEN Returned(InvalidEnvelope("Failed to validate API key",
                                  BodyError(req, resp).message))
    ELSE IF ~resp.parses
    THEN Returned(InvalidEnvelope("Failed to validate API key",
                                  InvalidJsonError(resp).message))
    ELSE IF resp.json.t = "null"
    THEN Returned(InvalidEnvelope("Failed to validate API key",
             <<"Cannot read properties of null (reading 'credits')">>))
    ELSE Returned([success |-> TRUE, valid |-> TRUE, message |-> "API key is valid",
                   credits |-> Or(resp.json.credits, JStr("Unknown")),
                   account_status |-> "Active"])

\* What handleValidateApiKey ends with, for the way its request ended (lines
\* 439-504): the fetch rejected, a 401 (no body is read), the body failed
\* while response.text() or response.json() read it, or the whole response.
ValidateSettle(req, resp) ==
    IF resp.kind = "reject"
    THEN Returned(InvalidEnvelope("Failed to validate API key",
                                  TransportError(req, resp).message))
    ELSE IF resp.status = 401
    THEN Returned(InvalidEnvelope("Invalid API key", <<"Authentication failed">>))
    ELSE IF resp.kind = "failed"
    THEN Returned(InvalidEnvelope("Failed to validate API key",
                                  BodyError(req, resp).message))
    ELSE IF ~Ok(resp)
    THEN Returned(InvalidEnvelope("Failed to validate API key",
             <<"HTTP " \o ToString(resp.status), ": ", resp.text>>))
    ELSE IF ~resp.parses
    THEN Returned(InvalidEnvelope("Failed to validate API key",
                                  InvalidJsonError(resp).message))
    ELSE IF resp.json.t = "null"
    THEN Returned(InvalidEnvelope("Failed to validate API key",
             <<"Cannot read properties of null (reading 'credits')">>))
    ELSE Returned([success |-> TRUE, valid |-> TRUE, message |-> "API key is valid",
                   credits |-> Or(resp.json.credits, JStr("Unknown")),
                   account_status |-> "Active"])

----------------------------------------------------------------------------
(* The call-tool request handler (lines 238-266) *)

Tools == {"video_to_audio", "text_to_audio", "validate_api_key"}

\* Dispatch without the instanceof test: every error is wrapped.
DispatchWrapAll(result) ==
    IF result.kind = "throw"
    THEN McpError("InternalError", <<"Tool execution failed: ">> \o result.message)
    ELSE result

\* The catch of the request handler: an McpError passes, anything else is
\* wrapped in McpError(InternalError).
Dispatch(result) ==
    IF result.kind = "throw" /\ result.class # "McpError"
    THEN McpError("InternalError", <<"Tool execution failed: ">> \o result.message)
    ELSE result

\* UnknownTool thrown as a plain Error, which the catch wraps.
UnknownToolWrapped(name) ==
    McpError("InternalError", <<"Tool execution failed: ", "Unknown tool: ", name>>)

\* The default case of the switch (lines 249-253).
UnknownTool(name) == McpError("MethodNotFound", <<"Unknown tool: ", name>>)

----------------------------------------------------------------------------
(* The inputs of the model *)

\* Tool calls the server can be handling at once.
MaxInFlight == 2

Slots == 1..MaxInFlight

ArgKeys ==
    { "video_url", "prompt", "negative_prompt", "seed", "num_steps", "duration",
      "cfg_strength", "api_key" }

EmptyObject == [k \in ArgKeys |-> JUndefined]

\* request.params.arguments: absent, or an object.
NoArgs == [given |-> FALSE, obj |-> EmptyObject]

Args(obj) == [given |-> TRUE, obj |-> obj]

PromptValues == {JUndefined, JStr(""), JStr("rain on leaves"), JNum(5, 0)}

VideoUrlValues == {JUndefined, JStr("not a url"), JStr("https://cdn.example/v.mp4")}

DurationValues ==
    {JUndefined, JNum(0, 0), JNum(0, 9), JNum(1, 0), JNum(30, 0), JNum(30, 1),
     JNum(31, 0)}

NumStepsValues == {JUndefined, JNum(0, 5), JNum(50, 0)}

CfgStrengthValues == {JUndefined, JNum(11, 0)}

NegativePromptValues == {JUndefined, JStr("noise")}

SeedValues == {JUndefined, JNull, JNum(7, 0)}

\* The arguments of the generation calls.
GenerationArgs(tool) ==
    {NoArgs} \cup
    { Args([EmptyObject EXCEPT !.video_url = u, !.prompt = p,
                               !.negative_prompt = np, !.seed = sd,
                               !.num_steps = ns, !.duration = d,
                               !.cfg_strength = cs]) :
        u \in (IF tool = "video_to_audio" THEN VideoUrlValues ELSE {JUndefined}),
        p \in PromptValues, np \in NegativePromptValues, sd \in SeedValues,
        ns \in NumStepsValues, d \in DurationValues, cs \in CfgStrengthValues }

\* The arguments of validate_api_key.
ValidateArgs ==
    {NoArgs} \cup
    { Args([EmptyObject EXCEPT !.api_key = k]) :
        k \in {JUndefined, JStr(""), JStr("sk-override"), JNum(5, 0),
               JBool(TRUE), JArray("a,b"), JObject, JObjectOwnToString,
               JArrayOwnToString} }

UnknownNames == {"speech_to_text", "VIDEO_TO_AUDIO"}

\* process.env with MMAUDIO_API_KEY alone set.
DefaultEnv ==
    [ MMAUDIO_API_KEY |-> EnvStr("sk-test"), apiKey |-> EnvUnset,
      MMAUDIO_BASE_URL |-> EnvUnset, baseUrl |-> EnvUnset,
      MMAUDIO_TIMEOUT |-> EnvCharsUnset, timeout |-> EnvCharsUnset ]

\* process.env with nothing set that loadConfig accepts.
BrokenEnv ==
    [ DefaultEnv EXCEPT !.MMAUDIO_API_KEY = EnvUnset,
                        !.MMAUDIO_BASE_URL = EnvStr("not a url"),
                        !.MMAUDIO_TIMEOUT = EnvChars(<<"a", "b", "c">>) ]

\* process.env at start: the key, the base URL and the timeout each varied
\* against DefaultEnv.
Envs ==
    { [DefaultEnv EXCEPT !.MMAUDIO_API_KEY = k, !.apiKey = a] :
        k \in {EnvUnset, EnvStr(""), EnvStr("sk-test")},
        a \in {EnvUnset, EnvStr("sk-alt")} }
    \cup { [DefaultEnv EXCEPT !.MMAUDIO_BASE_URL = u] :
             u \in {EnvStr("not a url"), EnvStr("https://alt.example")} }
    \cup { [DefaultEnv EXCEPT !.MMAUDIO_TIMEOUT = EnvChars(c)] :
             c \in { <<"4", "9", "9", "9">>, <<"5", "0", "0", "0">>,
                     <<"3", "0", "0", "0", "0", "1">>, <<"a", "b", "c">> } }
    \cup {BrokenEnv}

----------------------------------------------------------------------------
(* The state machine *)

\* pc is where the handler of the call stands: "fetch" at `await fetch(...)`,
\* "body" at `await response.text()` or `await response.json()` (the status
\* is known, the outcome is open), "done" when it has returned or thrown.
\* overdue: the request has been out for longer than the timeout it was
\* given.
IdleCall ==
    [pc |-> "idle", tool |-> "", args |-> NoArgs, nFetch |-> 0,
     request |-> NoRequest, response |-> NoResponse, outcome |-> NoOutcome,
     overdue |-> FALSE]

\* The state after `new MMAudioServer()` (lines 73-88): this.config = null.
Init ==
    /\ env \in Envs
    /\ config = ConfigNull
    /\ phase = "constructed"
    /\ exitCode = -1
    /\ calls = [i \in Slots |-> IdleCall]

\* process.exit(code): the process ends, and the calls in flight with it.
Exit(code) ==
    /\ phase' = "exited"
    /\ exitCode' = code
    /\ calls' = [i \in Slots |-> IdleCall]

\* Start with a catch that logs the failure of loadConfig and goes on to
\* connect.
StartNoExit ==
    /\ phase = "constructed"
    /\ LET r == LoadConfig(env)
       IN  /\ config' = (IF r.ok THEN r.config ELSE config)
           /\ phase' = "connecting"
           /\ UNCHANGED <<exitCode, calls>>
    /\ UNCHANGED env

\* Start without loadConfig(): the transport is connected straight away.
StartConnectFirst ==
    /\ phase = "constructed"
    /\ phase' = "connecting"
    /\ UNCHANGED <<env, config, exitCode, calls>>

\* start() up to its await (lines 520-524): loadConfig(), then connect.
Start ==
    /\ phase = "constructed"
    /\ LET r == LoadConfig(env)
       IN  IF r.ok
           THEN /\ config' = r.config
                /\ phase' = "connecting"
                /\ UNCHANGED <<exitCode, calls>>
           ELSE UNCHANGED config /\ Exit(1)
    /\ UNCHANGED env

\* server.connect(transport) settles (lines 524-532).
Connected(ok) ==
    /\ phase = "connecting"
    /\ IF ok THEN phase' = "running" /\ UNCHANGED <<exitCode, calls>> ELSE Exit(1)
    /\ UNCHANGED <<env, config>>

\* SIGINT or SIGTERM (lines 544-552).
Signal ==
    /\ phase \in {"connecting", "running"}
    /\ Exit(0)
    /\ UNCHANGED <<env, config>>

\* The record of a call that was handled up to its fetch or to its end.
Begun(tool, args, request, result) ==
    IF result.kind = "none"
    THEN [pc |-> "fetch", tool |-> tool, args |-> args, nFetch |-> 1,
          request |-> request, response |-> NoResponse, outcome |-> NoOutcome,
          overdue |-> FALSE]
    ELSE [pc |-> "done", tool |-> tool, args |-> args, nFetch |-> 0,
          request |-> request, response |-> NoResponse,
          outcome |-> Dispatch(result), overdue |-> FALSE]

\* A tools/call of video_to_audio or text_to_audio, up to its fetch.
CallGeneration(i, tool, args) ==
    /\ calls[i].pc = "idle"
    /\ LET b == GenerationBegin(tool, args, config, env)
       IN  /\ config' = b.config
           /\ calls' = [calls EXCEPT ![i] = Begun(tool, args, b.request, b.result)]
    /\ UNCHANGED <<env, phase, exitCode>>

\* CallValidate keeping the key it was given as the configured one.
CallValidateStoresKey(i, args) ==
    /\ calls[i].pc = "idle"
    /\ LET b == ValidateBegin(args, config)
       IN  /\ calls' = [calls EXCEPT
                           ![i] = Begun("validate_api_key", args, b.request, b.result)]
           /\ config' = IF /\ config.loaded /\ args.given
                           /\ Truthy(args.obj.api_key) /\ HasText(args.obj.api_key)
                        THEN [config EXCEPT !.apiKey = ToText(args.obj.api_key)]
                        ELSE config
    /\ UNCHANGED <<env, phase, exitCode>>

\* A tools/call of validate_api_key, up to its fetch.
CallValidate(i, args) ==
    /\ calls[i].pc = "idle"
    /\ LET b == ValidateBegin(args, config)
       IN  calls' = [calls EXCEPT
                        ![i] = Begun("validate_api_key", args, b.request, b.result)]
    /\ UNCHANGED <<env, config, phase, exitCode>>

\* A tools/call of a name the switch does not know.
CallUnknown(i, name, args) ==
    /\ calls[i].pc = "idle"
    /\ name \notin Tools
    /\ calls' = [calls EXCEPT ![i] = Begun(name, args, NoRequest, UnknownTool(name))]
    /\ UNCHANGED <<env, config, phase, exitCode>>

\* FetchGeneration with one retry of a request that got a 5xx or no answer.
FetchGenerationRetry(i, first) ==
    /\ calls[i].pc = "fetch"
    /\ calls[i].tool \in GenerationTools
    /\ IF calls[i].nFetch < 2 /\ (first.kind = "reject" \/ first.status >= 500)
       THEN calls' = [calls EXCEPT ![i].nFetch = @ + 1]
       ELSE IF first.kind = "reject"
       THEN calls' = [calls EXCEPT
                         ![i].pc = "done",
                         ![i].response = first,
                         ![i].outcome = Dispatch(GenerationSettle(calls[i].tool,
                                            calls[i].args, calls[i].request, first))]
       ELSE calls' = [calls EXCEPT ![i].pc = "body", ![i].response = first]
    /\ UNCHANGED <<env, config, phase, exitCode>>

\* `await fetch(...)` of a generation call settles (lines 280 and 359).  A
\* rejection takes the handler to its end; with a response the handler reads
\* response.ok and awaits the body: response.text() (lines 292 and 371) or
\* response.json() (lines 313 and 392).
FetchGeneration(i, first) ==
    /\ calls[i].pc = "fetch"
    /\ calls[i].tool \in GenerationTools
    /\ IF first.kind = "reject"
       THEN calls' = [calls EXCEPT
                         ![i].pc = "done",
                         ![i].response = first,
                         ![i].outcome = Dispatch(GenerationSettle(calls[i].tool,
                                            calls[i].args, calls[i].request, first))]
       ELSE calls' = [calls EXCEPT ![i].pc = "body", ![i].response = first]
    /\ UNCHANGED <<env, config, phase, exitCode>>

\* `await fetch(...)` of validate_api_key settles (line 439).  A rejection
\* and a 401 take the handler to its end (lines 450-464 read no body); with
\* another status it awaits response.text() (line 467) or response.json()
\* (line 470).
FetchValidate(i, first) ==
    /\ calls[i].pc = "fetch"
    /\ calls[i].tool = "validate_api_key"
    /\ IF first.kind = "reject" \/ first.status = 401
       THEN calls' = [calls EXCEPT
                         ![i].pc = "done",
                         ![i].response = first,
                         ![i].outcome = Dispatch(ValidateSettle(calls[i].request,
                                                                first))]
       ELSE calls' = [calls EXCEPT ![i].pc = "body", ![i].response = first]
    /\ UNCHANGED <<env, config, phase, exitCode>>

\* SettleGeneration of a handler that keeps its input in a field of the
\* server, where a call of the same tool that came meanwhile has put its own.
SettleGenerationShared(i, resp) ==
    /\ calls[i].pc = "body"
    /\ calls[i].tool \in GenerationTools
    /\ resp.status = calls[i].response.status
    /\ LET others == {j \in Slots \ {i} : /\ calls[j].pc \in {"fetch", "body"}
                                          /\ calls[j].tool = calls[i].tool}
           input == IF others = {} THEN calls[i].args
                    ELSE calls[CHOOSE j \in others : TRUE].args
       IN  calls' = [calls EXCEPT
                        ![i].pc = "done",
                        ![i].response = resp,
                        ![i].outcome = Dispatch(GenerationSettle(calls[i].tool,
                                           input, calls[i].request, resp))]
    /\ UNCHANGED <<env, config, phase, exitCode>>

\* The body of the response to a generation call arrives, or its stream
\* fails, and the handler runs to its end (lines 292-310 and 313-345).
SettleGeneration(i, resp) ==
    /\ calls[i].pc = "body"
    /\ calls[i].tool \in GenerationTools
    /\ resp.status = calls[i].response.status
    /\ calls' = [calls EXCEPT
                    ![i].pc = "done",
                    ![i].response = resp,
                    ![i].outcome = Dispatch(GenerationSettle(calls[i].tool,
                                       calls[i].args, calls[i].request, resp))]
    /\ UNCHANGED <<env, config, phase, exitCode>>

\* The body of the response to validate_api_key arrives, or its stream
\* fails, and the handler runs to its end (lines 466-504).
SettleValidate(i, resp) ==
    /\ calls[i].pc = "body"
    /\ calls[i].tool = "validate_api_key"
    /\ resp.status = calls[i].response.status
    /\ calls' = [calls EXCEPT
                    ![i].pc = "done",
                    ![i].response = resp,
                    ![i].outcome = Dispatch(ValidateSettle(calls[i].request, resp))]
    /\ UNCHANGED <<env, config, phase, exitCode>>

\* The timeout given to fetch (lines 288, 367 and 447) elapses while the
\* request is out.  node-fetch 3, the version of package.json, has no
\* `timeout` option: it sets no timer, and the fetch stays pending.
DeadlinePasses(i) ==
    /\ calls[i].pc \in {"fetch", "body"}
    /\ ~calls[i].overdue
    /\ calls' = [calls EXCEPT ![i].overdue = TRUE]
    /\ UNCHANGED <<env, config, phase, exitCode>>

\* The result or the error of a finished call goes back to the client.
Deliver(i) ==
    /\ calls[i].pc = "done"
    /\ calls' = [calls EXCEPT ![i] = IdleCall]
    /\ UNCHANGED <<env, config, phase, exitCode>>

\* No call is being handled.
Quiet == \A j \in Slots : calls[j].pc = "idle"

\* The steps of the calls in flight.
Settle ==
    \E i \in Slots :
        \/ \E first \in FetchOutcomes : FetchGeneration(i, first)
        \/ \E first \in FetchOutcomes : FetchValidate(i, first)
        \/ \E resp \in Arrivals : SettleGeneration(i, resp)
        \/ \E resp \in Arrivals : SettleValidate(i, resp)
        \/ Deliver(i)

\* A client that awaits each answer before its next request.
Request ==
    /\ Quiet
    /\ \E i \in Slots :
        \/ \E tool \in GenerationTools :
              \E args \in GenerationArgs(tool) : CallGeneration(i, tool, args)
        \/ \E args \in ValidateArgs : CallValidate(i, args)
        \/ \E name \in UnknownNames :
              \E args \in ValidateArgs : CallUnknown(i, name, args)

\* The server process: requests arrive once the transport is connected.
Next ==
    \/ Start
    \/ \E ok \in BOOLEAN : Connected(ok)
    \/ Signal
    \/ phase = "running" /\ Request
    \/ phase = "running" /\ Settle

Spec == Init /\ [][Next]_vars

\* process.env in every combination of the key, the base URL and the
\* timeout variables.
ConfigEnvs ==
    { [ MMAUDIO_API_KEY |-> k, apiKey |-> a,
        MMAUDIO_BASE_URL |-> u, baseUrl |-> EnvUnset,
        MMAUDIO_TIMEOUT |-> t, timeout |-> EnvCharsUnset ] :
        k \in {EnvUnset, EnvStr(""), EnvStr("sk-test")},
        a \in {EnvUnset, EnvStr(""), EnvStr("sk-alt")},
        u \in {EnvUnset, EnvStr("not a url"), EnvStr("mmaudio.net"),
               EnvStr("https://alt.example")},
        t \in {EnvCharsUnset} \cup
              { EnvChars(c) :
                  c \in { <<"4", "9", "9", "9">>, <<"5", "0", "0", "0">>,
                          <<"3", "0", "0", "0", "0", "0">>,
                          <<"3", "0", "0", "0", "0", "1">>, <<"a", "b", "c">>,
                          <<" ", "5", "0", "0", "0">>,
                          <<"\r", "U+00A0", "5", "0", "0", "0">>,
                          <<"0", "x", "1", "3", "8", "8">>, <<"0", "x">> } } }

\* The arguments of a generation call with the required fields alone.
PlainArgs(tool) ==
    Args([EmptyObject EXCEPT
             !.prompt = JStr("rain on leaves"),
             !.video_url = IF tool = "video_to_audio"
                           THEN JStr("https://cdn.example/v.mp4") ELSE JUndefined])

\* The arguments of validate_api_key with no override or a string for one.
PlainValidateArgs ==
    {a \in ValidateArgs : a.obj.api_key.t \in {"undefined", "string"}}

\* A client that awaits each answer and sends plain calls.
RequestPlain ==
    /\ Quiet
    /\ \E i \in Slots :
        \/ \E tool \in GenerationTools : CallGeneration(i, tool, PlainArgs(tool))
        \/ \E args \in PlainValidateArgs : CallValidate(i, args)

InitConfig ==
    /\ env \in ConfigEnvs
    /\ config = ConfigNull
    /\ phase = "constructed"
    /\ exitCode = -1
    /\ calls = [i \in Slots |-> IdleCall]

\* The server process under every environment: start() resolves the
\* configuration or ends the process, and requests arrive once the transport
\* is connected.
NextConfig ==
    \/ Start
    \/ \E ok \in BOOLEAN : Connected(ok)
    \/ Signal
    \/ phase = "running" /\ RequestPlain
    \/ phase = "running" /\ Settle

SpecConfig == InitConfig /\ [][NextConfig]_vars

\* process.env with the shortest timeout loadConfig accepts, and with none.
DeadlineEnvs ==
    { DefaultEnv,
      [DefaultEnv EXCEPT !.MMAUDIO_TIMEOUT = EnvChars(<<"5", "0", "0", "0">>)] }

InitDeadline ==
    /\ env \in DeadlineEnvs
    /\ config = ConfigNull
    /\ phase = "constructed"
    /\ exitCode = -1
    /\ calls = [i \in Slots |-> IdleCall]

\* The server process with the clock of its requests: an upstream that is
\* slower than the timeout.  (The other specifications leave the clock out:
\* no step of the program reads it.)
NextDeadline ==
    \/ Start
    \/ \E ok \in BOOLEAN : Connected(ok)
    \/ Signal
    \/ phase = "running" /\ RequestPlain
    \/ phase = "running" /\ Settle
    \/ phase = "running" /\ \E i \in Slots : DeadlinePasses(i)

SpecDeadline == InitDeadline /\ [][NextDeadline]_vars

\* Two valid inputs of a generation tool, which differ in their duration.
ConcurrentArgs(tool) ==
    { PlainArgs(tool),
      Args([PlainArgs(tool).obj EXCEPT !.duration = JNum(30, 0)]) }

\* A refused connection, a good answer to each kind of request, a 401 and a
\* 500 with an error body, and a body that fails after a 200.
FewUpstream ==
    { r \in Upstream :
        \/ r = Rejected("connect ECONNREFUSED")
        \/ /\ r.kind = "response" /\ r.status = 200
           /\ r.parses /\ r.json.t = "object"
           /\ (r.json.audio = DescA \/ r.json.credits = JNum(100, 0))
        \/ /\ r.kind = "response" /\ r.status \in {401, 500}
           /\ r.text = "{\"error\":\"boom\"}"
        \/ r.kind = "failed" /\ r.status = 200 }

\* The ways the fetch of a request that ends as in FewUpstream settles.
FewFetchOutcomes ==
    { f \in FetchOutcomes :
        \E r \in FewUpstream : IF r.kind = "reject" THEN f = r
                               ELSE f = Headers(r.status) }

\* A client that sends requests without awaiting the answers: the handlers
\* are async, and a second call starts while the first awaits its fetch.
RequestConcurrent ==
    \E i \in Slots :
        \/ \E tool \in GenerationTools :
              \E args \in ConcurrentArgs(tool) : CallGeneration(i, tool, args)
        \/ \E args \in ValidateArgs : CallValidate(i, args)

\* The fetches settle in any order.
SettleConcurrent ==
    \E i \in Slots :
        \/ \E first \in FewFetchOutcomes : FetchGeneration(i, first)
        \/ \E first \in FewFetchOutcomes : FetchValidate(i, first)
        \/ \E resp \in FewUpstream : SettleGeneration(i, resp)
        \/ \E resp \in FewUpstream : SettleValidate(i, resp)
        \/ Deliver(i)

InitConcurrent ==
    /\ env = DefaultEnv
    /\ config = ConfigNull
    /\ phase = "constructed"
    /\ exitCode = -1
    /\ calls = [i \in Slots |-> IdleCall]

\* The server process with calls in flight at the same time.
NextConcurrent ==
    \/ Start
    \/ \E ok \in BOOLEAN : Connected(ok)
    \/ Signal
    \/ phase = "running" /\ RequestConcurrent
    \/ phase = "running" /\ SettleConcurrent

SpecConcurrent == InitConcurrent /\ [][NextConcurrent]_vars

----------------------------------------------------------------------------
(* The input contract, stated field by field (spec section 4.2) *)

IsString(v) == v.t = "string"

IsNumber(v) == v.t = "number"

IsInteger(v) == v.t = "number" /\ v.n % 10 = 0

Omitted(v) == v.t = "undefined"

\* lo <= v <= hi
Within(v, lo, hi) == v.t = "number" /\ 10 * lo <= v.n /\ v.n <= 10 * hi

\* The fields an operation recognises.
FieldsOf(tool) ==
    IF tool = "video_to_audio"
    THEN {"video_url", "prompt", "negative_prompt", "seed", "num_steps",
          "duration", "cfg_strength"}
    ELSE {"prompt", "negative_prompt", "seed", "num_steps", "duration",
          "cfg_strength"}

RequiredOf(tool) ==
    IF tool = "video_to_audio" THEN {"video_url", "prompt"} ELSE {"prompt"}

\* Field k of an input object meets the contract of the operation.
FieldMeetsContract(tool, k, v) ==
    CASE k = "prompt" -> IsString(v) /\ v.s # ""
      [] k = "video_url" -> IsString(v) /\ IsUrl(v.s)
      [] k = "negative_prompt" -> Omitted(v) \/ IsString(v)
      [] k = "duration" -> Omitted(v) \/ Within(v, 1, 30)
      [] k = "num_steps" -> Omitted(v) \/ (IsInteger(v) /\ Within(v, 1, 50))
      [] k = "cfg_strength" -> Omitted(v) \/ Within(v, 1, 10)
      [] k = "seed" -> \/ Omitted(v)
                       \/ IsInteger(v)
                       \/ (tool = "video_to_audio" /\ v.t = "null")

Offending(tool, args) ==
    {k \in FieldsOf(tool) : ~FieldMeetsContract(tool, k, args.obj[k])}

MeetsContract(tool, args) == args.given /\ Offending(tool, args) = {}

\* The call in slot i is a generation call, under way or finished.
Generation(i) == calls[i].pc # "idle" /\ calls[i].tool \in GenerationTools

Finished(i) == calls[i].pc = "done"

\* The outcome is the McpError(InvalidParams) of a rejected input.
IsValidationError(outcome) ==
    /\ outcome.kind = "throw"
    /\ outcome.class = "McpError"
    /\ outcome.code = "InvalidParams"

\* The message has the segment x.
Mentions(message, x) == \E j \in 1..Len(message) : message[j] = x

----------------------------------------------------------------------------
(* C1 *)

\* C1: a video_to_audio or text_to_audio invocation makes exactly one
\* outbound HTTP call when configuration and input validation succeed, none
\* when the input is rejected, and never a second one, however the call ends.
C1_OneCallPerInvocation ==
    \A i \in Slots :
        Generation(i) =>
            /\ calls[i].nFetch <= 1
            /\ (config.loaded /\ MeetsContract(calls[i].tool, calls[i].args))
                   => (calls[i].nFetch = 1 /\ calls[i].request.method = "POST")
            /\ ~MeetsContract(calls[i].tool, calls[i].args)
                   => (calls[i].nFetch = 0 /\ calls[i].request = NoRequest
                       /\ Finished(i))

\* A generation call ended on a 500 of the upstream with its one call made.
C1_Witness ==
    \E i \in Slots :
        /\ Generation(i) /\ Finished(i)
        /\ calls[i].response.kind = "response"
        /\ calls[i].response.status = 500
        /\ calls[i].nFetch = 1

----------------------------------------------------------------------------
(* C2 *)

\* The required fields the arguments of a call leave out.
MissingRequired(tool, args) ==
    {k \in RequiredOf(tool) : ~args.given \/ Omitted(args.obj[k])}

\* C2: a generation call whose input omits a required field (prompt for
\* text_to_audio; prompt or video_url for video_to_audio) ends in a validation
\* error whose message names the missing field, whatever the other fields of
\* the input are.
C2_MissingFieldNamed ==
    \A i \in Slots :
        (/\ Generation(i)
         /\ calls[i].args.given
         /\ MissingRequired(calls[i].tool, calls[i].args) # {}) =>
            /\ Finished(i)
            /\ calls[i].nFetch = 0
            /\ IsValidationError(calls[i].outcome)
            /\ \A k \in MissingRequired(calls[i].tool, calls[i].args) :
                   \E j \in 1..(Len(calls[i].outcome.message) - 2) :
                       /\ calls[i].outcome.message[j] = k
                       /\ calls[i].outcome.message[j + 1] = ": "
                       /\ calls[i].outcome.message[j + 2] = "Required"

\* text_to_audio with a duration and no prompt (the input of
\* testSchemaValidation) was rejected with `prompt: Required`.
C2_Witness ==
    \E i \in Slots :
        /\ Generation(i) /\ Finished(i)
        /\ calls[i].tool = "text_to_audio"
        /\ calls[i].args = Args([EmptyObject EXCEPT !.duration = JNum(30, 0)])
        /\ calls[i].outcome
               = McpError("InvalidParams",
                          <<"Invalid input parameters: ", "prompt", ": ", "Required">>)

\* A call that comes with no arguments object has no field to name: zod
\* rejects it at the root, with an empty path.
NoArgumentsRejectedAtRoot ==
    \A i \in Slots :
        (Generation(i) /\ ~calls[i].args.given) =>
            calls[i].outcome
                = McpError("InvalidParams",
                           <<"Invalid input parameters: ", "", ": ", "Required">>)

----------------------------------------------------------------------------
(* C3 *)

\* The message has `<path>: <reason>` for the field k.
Lists(message, k) ==
    \E j \in 1..(Len(message) - 2) :
        /\ message[j] = k
        /\ message[j + 1] = ": "
        /\ message[j + 2] \notin {"", ": ", ", "}

\* C3: when the input of a generation call violates the contract in several
\* fields at once, the validation error lists every offending field with its
\* path and its reason, not only the first one found (and no other field).
C3_EveryOffendingFieldListed ==
    \A i \in Slots :
        (/\ Generation(i)
         /\ calls[i].args.given
         /\ Offending(calls[i].tool, calls[i].args) # {}) =>
            /\ Finished(i)
            /\ IsValidationError(calls[i].outcome)
            /\ \A k \in FieldsOf(calls[i].tool) :
                   Lists(calls[i].outcome.message, k)
                       <=> k \in Offending(calls[i].tool, calls[i].args)

\* A call rejected for four offending fields at once, the first and the last
\* of the schema among them.
C3_Witness ==
    \E i \in Slots :
        /\ Generation(i) /\ Finished(i)
        /\ calls[i].tool = "video_to_audio"
        /\ calls[i].args.given
        /\ Offending(calls[i].tool, calls[i].args)
               = {"video_url", "prompt", "duration", "cfg_strength"}
        /\ Lists(calls[i].outcome.message, "video_url")
        /\ Lists(calls[i].outcome.message, "cfg_strength")

----------------------------------------------------------------------------
(* C4 *)

\* The input is an object whose fields other than duration meet the contract
\* and whose duration is a number.
DurationDecides(tool, args) ==
    /\ args.given
    /\ Offending(tool, args) \subseteq {"duration"}
    /\ IsNumber(args.obj.duration)

\* C4: for both generation operations and an otherwise valid input, a
\* duration d is accepted (the request is issued) if and only if 1 <= d <= 30;
\* a duration outside is rejected with a validation error before any outbound
\* call.
C4_DurationBounds ==
    \A i \in Slots :
        (Generation(i) /\ DurationDecides(calls[i].tool, calls[i].args)) =>
            LET d == calls[i].args.obj.duration
            IN  /\ (calls[i].nFetch = 1) <=> (10 <= d.n /\ d.n <= 300)
                /\ ~(10 <= d.n /\ d.n <= 300) =>
                       /\ Finished(i)
                       /\ IsValidationError(calls[i].outcome)
                       /\ Mentions(calls[i].outcome.message, "duration")
                       /\ calls[i].request = NoRequest

\* Duration 31 on an otherwise valid text_to_audio input was rejected.
C4_Witness ==
    \E i \in Slots :
        /\ Generation(i) /\ Finished(i)
        /\ calls[i].tool = "text_to_audio"
        /\ DurationDecides(calls[i].tool, calls[i].args)
        /\ calls[i].args.obj.duration = JNum(31, 0)
        /\ IsValidationError(calls[i].outcome)
        /\ calls[i].nFetch = 0

\* Duration 30 on an otherwise valid video_to_audio input was accepted.
C4_WitnessAccepted ==
    \E i \in Slots :
        /\ Generation(i)
        /\ calls[i].tool = "video_to_audio"
        /\ DurationDecides(calls[i].tool, calls[i].args)
        /\ calls[i].args.obj.duration = JNum(30, 0)
        /\ calls[i].nFetch = 1

----------------------------------------------------------------------------
(* C5 *)

\* The default of an optional field (spec section 4.2); video_to_audio has
\* none for seed.
DefaultOf(tool, k) ==
    CASE k = "negative_prompt" -> JStr("")
      [] k = "duration" -> JNum(8, 0)
      [] k = "num_steps" -> JNum(25, 0)
      [] k = "cfg_strength" -> JNum(4, 5)
      [] k = "seed" -> IF tool = "text_to_audio" THEN JNum(0, 0) ELSE JUndefined
      [] OTHER -> JUndefined

\* The body the contract asks for: the caller's fields, the defaults for the
\* omitted ones, and no key for a field that has neither.
ExpectedBody(tool, args) ==
    LET value(k) == IF Omitted(args.obj[k]) THEN DefaultOf(tool, k)
                    ELSE args.obj[k]
    IN  { <<k, value(k)>> : k \in {x \in FieldsOf(tool) : ~Omitted(value(x))} }

\* C5: the body sent upstream is the caller's input with every omitted
\* optional field replaced by its default; an omitted seed is 0 for
\* text_to_audio and stays absent for video_to_audio.
C5_BodyHasDefaults ==
    \A i \in Slots :
        (Generation(i) /\ calls[i].nFetch = 1) =>
            /\ calls[i].request.body = ExpectedBody(calls[i].tool, calls[i].args)
            /\ (calls[i].tool = "video_to_audio" /\ Omitted(calls[i].args.obj.seed))
                   => \A pair \in calls[i].request.body : pair[1] # "seed"

\* text_to_audio with the prompt alone: the body has all six fields.
C5_Witness ==
    \E i \in Slots :
        /\ Generation(i)
        /\ calls[i].tool = "text_to_audio"
        /\ calls[i].args = Args([EmptyObject EXCEPT !.prompt = JStr("rain on leaves")])
        /\ calls[i].request.body =
               { <<"prompt", JStr("rain on leaves")>>, <<"duration", JNum(8, 0)>>,
                 <<"num_steps", JNum(25, 0)>>, <<"cfg_strength", JNum(4, 5)>>,
                 <<"seed", JNum(0, 0)>>, <<"negative_prompt", JStr("")>> }

----------------------------------------------------------------------------
(* C6 *)

\* The upstream answered the call in slot i with the status st.
Answered(i, st) ==
    /\ Generation(i) /\ Finished(i)
    /\ calls[i].response.kind = "response"
    /\ calls[i].response.status = st

\* C6: when the upstream answers a generation request with HTTP 401, the tool
\* call returns the envelope {success: false, error: "Invalid API key...",
\* code: "INVALID_REQUEST"}, as the README's error response example shows it.
C6_UnauthorizedEnvelope ==
    \A i \in Slots :
        Answered(i, 401) =>
            /\ calls[i].outcome.kind = "return"
            /\ calls[i].outcome.envelope.success = FALSE
            /\ calls[i].outcome.envelope.error
                   = "Invalid API key. Please check your MMAudio API key."
            /\ calls[i].outcome.envelope.code = "INVALID_REQUEST"

----------------------------------------------------------------------------
(* C7 *)

\* The message the body of a response gives, as the claim means it: the
\* `error` member of a JSON object when it is a string, the text of a body
\* that is not JSON; "" when the body gives none.
BodyMessage(resp) ==
    IF resp.parses
    THEN (IF resp.json.t = "object" /\ IsString(resp.json.error)
          THEN resp.json.error.s ELSE "")
    ELSE resp.text

\* The bodies the claim speaks of: a body that is not JSON, and a JSON object
\* whose `error` is a string or is absent.
BodyAsClaimed(resp) ==
    \/ ~resp.parses
    \/ /\ resp.json.t = "object"
       /\ (IsString(resp.json.error) \/ Omitted(resp.json.error))

AuthenticationError ==
    McpError("InvalidRequest", <<"Invalid API key. Please check your MMAudio API key.">>)

QuotaError(tool) ==
    McpError("InvalidRequest",
             <<IF tool = "video_to_audio"
               THEN "Insufficient credits for video-to-audio generation."
               ELSE "Insufficient credits for text-to-audio generation.">>)

RateLimitError ==
    McpError("InvalidRequest", <<"Rate limit exceeded. Please try again later.">>)

\* 401, 403 and 429 each give their own error.
StatusErrorsAsClaimed(i) ==
    LET st == calls[i].response.status
    IN  /\ st = 401 => calls[i].outcome = AuthenticationError
        /\ st = 403 => calls[i].outcome = QuotaError(calls[i].tool)
        /\ st = 429 => calls[i].outcome = RateLimitError
        /\ AuthenticationError # QuotaError(calls[i].tool)
        /\ AuthenticationError # RateLimitError
        /\ QuotaError(calls[i].tool) # RateLimitError

\* The call in slot i got a non-2xx response, whose body the handler read
\* whole.
AnsweredNot2xx(i) ==
    /\ Generation(i) /\ Finished(i)
    /\ calls[i].response.kind = "response"
    /\ ~Ok(calls[i].response)

\* The call in slot i got a non-2xx status, and the body stream failed while
\* the handler read it.
BodyLostNot2xx(i) ==
    /\ Generation(i) /\ Finished(i)
    /\ calls[i].response.kind = "failed"
    /\ ~Ok(calls[i].response)

C7_WitnessStatus ==
    \E i \in Slots :
        /\ Answered(i, 500)
        /\ calls[i].response.text = ""
        /\ calls[i].outcome.message = <<"Tool execution failed: ", "HTTP 500">>

\* A 401 whose body stream failed ended in the generic error, not in the
\* error of a bad key.
C7_WitnessBodyLost ==
    \E i \in Slots :
        /\ BodyLostNot2xx(i)
        /\ calls[i].response = BodyFailed(401, "socket hang up")
        /\ calls[i].outcome.code = "InternalError"
        /\ Mentions(calls[i].outcome.message, "socket hang up")

\* Bodies the amended claim leaves out, and what the handler makes of them:
\* an `error` that is no string goes into the message as its text.  A 500
\* with the body {"error": 5} ended in `Tool execution failed: 5`.
C7_WitnessNotText ==
    \E i \in Slots :
        /\ Answered(i, 500)
        /\ calls[i].response.text = "{\"error\":5}"
        /\ calls[i].outcome.message = <<"Tool execution failed: ", "5">>

\* A 500 with the body {"error": {"message": "boom"}} ended in `Tool
\* execution failed: [object Object]`.
C7_WitnessObject ==
    \E i \in Slots :
        /\ Answered(i, 500)
        /\ calls[i].response.text = "{\"error\":{\"message\":\"boom\"}}"
        /\ calls[i].outcome.message
               = <<"Tool execution failed: ", "[object Object]">>

\* A 500 with the body {"error": {"toString": 1}}: the `error` has no text,
\* new Error threw a TypeError, and the call ended in the generic error with
\* the message of the TypeError, the status and the body both gone.
C7_WitnessNoText ==
    \E i \in Slots :
        /\ Answered(i, 500)
        /\ calls[i].response.text = "{\"error\":{\"toString\":1}}"
        /\ calls[i].outcome
               = McpError("InternalError",
                          <<"Tool execution failed: ",
                            "Cannot convert object to primitive value">>)

----
(* C8 *)

\* The descriptor of a parsed body is well formed.
WellFormedDesc(desc) ==
    /\ desc.t = "object"
    /\ IsString(desc.f.url) /\ IsUrl(desc.f.url.s)
    /\ IsString(desc.f.content_type)
    /\ IsString(desc.f.file_name)
    /\ IsNumber(desc.f.file_size)

\* The call in slot i got a 2xx response with a JSON object for a body.
Answered2xxObject(i) ==
    /\ Generation(i) /\ Finished(i)
    /\ calls[i].response.kind = "response"
    /\ Ok(calls[i].response)
    /\ calls[i].response.parses
    /\ calls[i].response.json.t = "object"

\* The descriptor the handler of the call in slot i reads.
DescOf(i) == calls[i].response.json[ResponseKey(calls[i].tool)]

\* C8: when the upstream answers 2xx with a descriptor that lacks or mistypes
\* one of url, content_type, file_name, file_size, the call fails with a
\* contract-violation error that differs from the validation error of a bad
\* caller input, and no success envelope is produced.
C8_ContractViolationDistinct ==
    \A i \in Slots :
        (Answered2xxObject(i) /\ ~WellFormedDesc(DescOf(i))) =>
            /\ calls[i].outcome.kind = "throw"
            /\ ~IsValidationError(calls[i].outcome)

\* What does hold: the call fails, and no envelope is produced.
C8_NoDefaultedEnvelope ==
    \A i \in Slots :
        (Answered2xxObject(i) /\ ~WellFormedDesc(DescOf(i))) =>
            calls[i].outcome.kind = "throw"

----------------------------------------------------------------------------
(* C9 *)

\* C9: for a valid generation request and a well-formed 2xx response, the
\* result of the success envelope has exactly six fields: the four values of
\* the upstream descriptor unchanged, and the duration and the prompt of the
\* request, the duration being 8 when the caller omitted it.
C9_ResultEchoesRequest ==
    \A i \in Slots :
        (Answered2xxObject(i) /\ WellFormedDesc(DescOf(i))) =>
            /\ calls[i].outcome.kind = "return"
            /\ calls[i].outcome.envelope.success = TRUE
            /\ LET result == calls[i].outcome.envelope.result
                   d == calls[i].args.obj.duration
               IN  /\ DOMAIN result = {"audio_url", "content_type", "file_name",
                                       "file_size", "duration", "prompt"}
                   /\ result.audio_url = DescOf(i).f.url
                   /\ result.content_type = DescOf(i).f.content_type
                   /\ result.file_name = DescOf(i).f.file_name
                   /\ result.file_size = DescOf(i).f.file_size
                   /\ result.duration = (IF Omitted(d) THEN JNum(8, 0) ELSE d)
                   /\ result.prompt = calls[i].args.obj.prompt

\* text_to_audio without a duration, answered 200 with the descriptor of
\* b.mp3: the result has the descriptor's values and duration 8.
C9_Witness ==
    \E i \in Slots :
        /\ Answered2xxObject(i)
        /\ calls[i].tool = "text_to_audio"
        /\ Omitted(calls[i].args.obj.duration)
        /\ DescOf(i) = DescB
        /\ calls[i].outcome.kind = "return"
        /\ calls[i].outcome.envelope.result.file_size = JNum(0, 5)
        /\ calls[i].outcome.envelope.result.duration = JNum(8, 0)

----------------------------------------------------------------------------
(* C11 *)

\* validate_api_key in slot i had a key to check: it passed line 435 and
\* issued its request.
ValidateChecking(i) ==
    /\ calls[i].pc # "idle"
    /\ calls[i].tool = "validate_api_key"
    /\ calls[i].nFetch = 1

\* validate_api_key in slot i has a key to check, the override or the
\* configured one: it passed line 435, whether or not it came to its fetch.
ValidateWithKey(i) ==
    /\ calls[i].pc # "idle"
    /\ calls[i].tool = "validate_api_key"
    /\ calls[i].args.given
    /\ (Truthy(calls[i].args.obj.api_key) \/ (config.loaded /\ config.apiKey # ""))

\* C11: once validate_api_key has a key to check it never ends in an error:
\* a 401 and every transport failure each give a returned envelope with
\* valid = false, the transport one (a rejected fetch, a body stream that
\* fails) carrying the raw failure message; a key that never came to a
\* request gives valid = false as well; and no generation call returns its
\* failure as an envelope.
C11_ValidateFailuresReturned ==
    \A i \in Slots :
        /\ (ValidateChecking(i) /\ Finished(i)) =>
               /\ calls[i].outcome.kind = "return"
               /\ calls[i].response.kind = "reject" =>
                      /\ calls[i].outcome.envelope.success = FALSE
                      /\ calls[i].outcome.envelope.valid = FALSE
                      /\ calls[i].outcome.envelope.error
                             = <<"request to ", calls[i].request.url,
                                 " failed, reason: ", calls[i].response.reason>>
               /\ calls[i].response.kind = "failed" =>
                      /\ calls[i].outcome.envelope.success = FALSE
                      /\ calls[i].outcome.envelope.valid = FALSE
                      /\ calls[i].outcome.envelope.error
                             = <<"Invalid response body while trying to fetch ",
                                 calls[i].request.url, ": ",
                                 calls[i].response.reason>>
               /\ calls[i].response.status = 401 =>
                      /\ calls[i].outcome.envelope.success = FALSE
                      /\ calls[i].outcome.envelope.valid = FALSE
        /\ (ValidateWithKey(i) /\ Finished(i)) =>
               /\ calls[i].outcome.kind = "return"
               /\ calls[i].nFetch = 0 =>
                      /\ calls[i].outcome.envelope.success = FALSE
                      /\ calls[i].outcome.envelope.valid = FALSE
        /\ (Generation(i) /\ Finished(i) /\ calls[i].outcome.kind = "return") =>
               calls[i].outcome.envelope.success = TRUE

\* The credits request was refused by the network and the caller got the
\* envelope with the FetchError's message.
C11_Witness ==
    \E i \in Slots :
        /\ ValidateChecking(i) /\ Finished(i)
        /\ calls[i].response = Rejected("connect ECONNREFUSED")
        /\ calls[i].outcome.kind = "return"
        /\ calls[i].outcome.envelope.valid = FALSE
        /\ calls[i].outcome.envelope.message = "Failed to validate API key"

\* The body of a 200 failed while response.json() read it, and the caller got
\* the envelope with the message of that failure.
C11_WitnessBodyLost ==
    \E i \in Slots :
        /\ ValidateChecking(i) /\ Finished(i)
        /\ calls[i].response = BodyFailed(200, "socket hang up")
        /\ calls[i].outcome
               = Returned(InvalidEnvelope("Failed to validate API key",
                     <<"Invalid response body while trying to fetch ",
                       "https://mmaudio.net/api/credits", ": ", "socket hang up">>))

\* The override {"toString": 1} has no text: the handler issued no request
\* and returned the envelope with the message of the TypeError.
C11_WitnessNoText ==
    \E i \in Slots :
        /\ ValidateWithKey(i) /\ Finished(i)
        /\ calls[i].args.obj.api_key = JObjectOwnToString
        /\ calls[i].nFetch = 0
        /\ calls[i].outcome
               = Returned(InvalidEnvelope("Failed to validate API key",
                     <<"Cannot convert object to primitive value">>))

\* The same with a 401 for an answer: the handler ended on the status, with
\* no body read.
C11_WitnessUnauthorized ==
    \E i \in Slots :
        /\ ValidateChecking(i) /\ Finished(i)
        /\ calls[i].response = Headers(401)
        /\ calls[i].outcome
               = Returned(InvalidEnvelope("Invalid API key",
                                          <<"Authentication failed">>))

----------------------------------------------------------------------------
(* C12 *)

\* What the handler of the finished call in slot i returned or threw, before
\* the catch of the request handler saw it.
HandlerResult(i) ==
    LET c == calls[i]
    IN  IF c.tool \in GenerationTools
        THEN (IF c.nFetch = 0
              THEN GenerationBegin(c.tool, c.args, config, env).result
              ELSE GenerationSettle(c.tool, c.args, c.request, c.response))
        ELSE IF c.tool = "validate_api_key"
        THEN (IF c.nFetch = 0
              THEN ValidateBegin(c.args, config).result
              ELSE ValidateSettle(c.request, c.response))
        ELSE UnknownTool(c.tool)

IsMcpError(outcome) == outcome.kind = "throw" /\ outcome.class = "McpError"

\* C12: every tool call, whatever its name, its arguments and the outcome of
\* its fetch, ends in a returned envelope or in an McpError; and an McpError
\* thrown inside a handler reaches the caller as it was thrown.
C12_ReturnOrMcpError ==
    \A i \in Slots :
        Finished(i) =>
            /\ calls[i].outcome.kind = "return" \/ IsMcpError(calls[i].outcome)
            /\ IsMcpError(HandlerResult(i)) => calls[i].outcome = HandlerResult(i)
            /\ HandlerResult(i).kind = "return" => calls[i].outcome = HandlerResult(i)

\* A FetchError of a generation call reached the caller as
\* McpError(InternalError).
C12_Witness ==
    \E i \in Slots :
        /\ Generation(i) /\ Finished(i)
        /\ HandlerResult(i).kind = "throw"
        /\ HandlerResult(i).class = "FetchError"
        /\ calls[i].outcome.class = "McpError"
        /\ calls[i].outcome.code = "InternalError"
        /\ calls[i].outcome.message[1] = "Tool execution failed: "

\* The McpError(InvalidRequest) of a 403 reached the caller unchanged.
C12_WitnessUnchanged ==
    \E i \in Slots :
        /\ Answered(i, 403)
        /\ IsMcpError(HandlerResult(i))
        /\ calls[i].outcome = QuotaError(calls[i].tool)

----------------------------------------------------------------------------
(* C13 *)

\* The envelope has the one shape of the spec's ResultEnvelope: success,
\* then message and result, or error and code.
UniformShape(envelope) ==
    IF envelope.success
    THEN DOMAIN envelope = {"success", "message", "result"}
    ELSE DOMAIN envelope = {"success", "error", "code"}

\* C13: every envelope that one of the three operations returns has the same
\* shape: a success flag, then message and result on success, or error and
\* code on failure; the envelopes of validate_api_key have the top-level
\* fields of those of video_to_audio and text_to_audio.
C13_UniformEnvelope ==
    \A i \in Slots :
        (Finished(i) /\ calls[i].outcome.kind = "return") =>
            UniformShape(calls[i].outcome.envelope)

\* What does hold: the envelopes of the generation operations have the shape.
C13_GenerationEnvelopeShape ==
    \A i \in Slots :
        (Generation(i) /\ Finished(i) /\ calls[i].outcome.kind = "return") =>
            UniformShape(calls[i].outcome.envelope)

\* And no envelope of validate_api_key has it.
C13_ValidateEnvelopeShape ==
    \A i \in Slots :
        (ValidateChecking(i) /\ Finished(i)) =>
            /\ calls[i].outcome.kind = "return"
            /\ DOMAIN calls[i].outcome.envelope
                   = (IF calls[i].outcome.envelope.success
                      THEN {"success", "valid", "message", "credits", "account_status"}
                      ELSE {"success", "valid", "message", "error"})

----------------------------------------------------------------------------
(* C14 *)

\* No API key in the environment: both variables absent or empty.
KeyMissing(e) == ~Truthy(e.MMAUDIO_API_KEY) /\ ~Truthy(e.apiKey)

\* The base URL the environment gives, the default when it gives none.
BaseUrlGiven(e) ==
    IF Truthy(e.MMAUDIO_BASE_URL) THEN e.MMAUDIO_BASE_URL.s
    ELSE IF Truthy(e.baseUrl) THEN e.baseUrl.s
    ELSE "https://mmaudio.net"

\* The timeout the environment gives, the default when it gives none: the
\* number parseInt reads from the text of the variable.
TimeoutGiven(e) ==
    ParseInt(IF e.MMAUDIO_TIMEOUT.c # <<>> THEN e.MMAUDIO_TIMEOUT.c
             ELSE IF e.timeout.c # <<>> THEN e.timeout.c
             ELSE <<"6", "0", "0", "0", "0">>)

TimeoutRefused(e) ==
    \/ TimeoutGiven(e).t # "number"
    \/ TimeoutGiven(e).n < 10 * 5000
    \/ TimeoutGiven(e).n > 10 * 300000

MustFail(e) == KeyMissing(e) \/ ~IsUrl(BaseUrlGiven(e)) \/ TimeoutRefused(e)

IsConfigurationError(outcome) ==
    /\ IsMcpError(outcome)
    /\ outcome.code = "InvalidRequest"
    /\ outcome.message[1] = "Configuration error: "

\* C14: resolution fails with a configuration error and leaves the cached
\* configuration unset whenever the key is absent or empty, the base URL is
\* not an absolute URL, or the timeout is not a number of [5000, 300000]; a
\* timeout out of range is rejected, never adjusted.
C14_ResolutionFails ==
    /\ MustFail(env) =>
           /\ ~config.loaded
           /\ config = ConfigNull
           /\ phase \in {"constructed", "exited"}
           /\ phase = "exited" => exitCode = 1
           /\ ~LoadConfig(env).ok
           /\ IsConfigurationError(LoadConfig(env).error)
           /\ LoadConfig(env).config = ConfigNull
           /\ \A i \in Slots : calls[i].pc = "idle"
    /\ config.loaded =>
           /\ ~MustFail(env)
           /\ 10 * config.timeout = TimeoutGiven(env).n
           /\ config.baseUrl = BaseUrlGiven(env)

\* With MMAUDIO_TIMEOUT=300001 and a good key and base URL, loadConfig threw
\* the configuration error that names the timeout, start() ended the process
\* with code 1, and the configuration is still unset.
C14_Witness ==
    /\ env.MMAUDIO_TIMEOUT = EnvChars(<<"3", "0", "0", "0", "0", "1">>)
    /\ ~KeyMissing(env) /\ IsUrl(BaseUrlGiven(env))
    /\ IsConfigurationError(LoadConfig(env).error)
    /\ Mentions(LoadConfig(env).error.message, "timeout")
    /\ phase = "exited"
    /\ exitCode = 1
    /\ ~config.loaded

\* The same with MMAUDIO_TIMEOUT=4999.
C14_WitnessStart ==
    /\ env.MMAUDIO_TIMEOUT = EnvChars(<<"4", "9", "9", "9">>)
    /\ phase = "exited"
    /\ exitCode = 1
    /\ ~config.loaded

\* MMAUDIO_TIMEOUT=0x1388 was read as 5000 and accepted, and so was a 5000
\* after a carriage return and a no-break space.
C14_WitnessRead ==
    /\ env.MMAUDIO_TIMEOUT \in { EnvChars(<<"0", "x", "1", "3", "8", "8">>),
                                 EnvChars(<<"\r", "U+00A0", "5", "0", "0", "0">>) }
    /\ config.loaded
    /\ config.timeout = 5000

----------------------------------------------------------------------------
(* C15 *)

\* A step that ends the process.
Exits == phase # "exited" /\ phase' = "exited"

\* A signal can end the process with code 0 in the next step.
SignalExits == Next /\ phase' = "exited" /\ exitCode' = 0

\* C15: when the configuration cannot be resolved or the transport cannot be
\* connected at start, the process exits with code 1 and has served no tool
\* call; a SIGINT or SIGTERM ends the process with code 0 at any time of its
\* run, a call being in flight or not.
C15_ExitCodes ==
    /\ [][/\ (phase = "constructed" /\ MustFail(env)) =>
                 (phase' = "exited" /\ exitCode' = 1)
          /\ (phase = "connecting" /\ phase' # "running") =>
                 (phase' = "exited" /\ exitCode' \in {0, 1})
          /\ (Exits /\ exitCode' = 1) =>
                 (phase \in {"constructed", "connecting"} /\ Quiet)
          /\ (Exits /\ phase = "running") => exitCode' = 0
          /\ phase = "exited" => UNCHANGED vars]_vars
    /\ [](\A i \in Slots : calls[i].pc # "idle" => phase = "running")
    /\ [](phase \in {"connecting", "running"} => ENABLED SignalExits)

\* The process exited with code 1 under an environment with no API key.
C15_Witness ==
    /\ KeyMissing(env)
    /\ phase = "exited"
    /\ exitCode = 1
    /\ Quiet

\* The process exited with code 0.
C15_WitnessSignal ==
    /\ phase = "exited"
    /\ exitCode = 0
    /\ config.loaded

----------------------------------------------------------------------------
(* C16 *)

\* The call in slot i names no tool of the server.
Unknown(i) == calls[i].pc # "idle" /\ calls[i].tool \notin Tools

\* C16: a call that names another tool than video_to_audio, text_to_audio
\* and validate_api_key ends in a method-not-found error whose message has
\* `Unknown tool` and the name, with no outbound request and no change of
\* the state of the server.
C16_UnknownTool ==
    /\ [](\A i \in Slots :
            Unknown(i) =>
                /\ Finished(i)
                /\ calls[i].nFetch = 0
                /\ calls[i].request = NoRequest
                /\ calls[i].outcome
                       = McpError("MethodNotFound",
                                  <<"Unknown tool: ", calls[i].tool>>))
    /\ [][\A i \in Slots :
            (~Unknown(i) /\ Unknown(i)') =>
                /\ UNCHANGED <<env, config, phase, exitCode>>
                /\ \A j \in Slots \ {i} : calls'[j] = calls[j]]_vars

\* VIDEO_TO_AUDIO is not video_to_audio.
C16_Witness ==
    \E i \in Slots :
        /\ Unknown(i) /\ Finished(i)
        /\ calls[i].tool = "VIDEO_TO_AUDIO"
        /\ calls[i].outcome.code = "MethodNotFound"
        /\ Mentions(calls[i].outcome.message, "VIDEO_TO_AUDIO")

----------------------------------------------------------------------------
(* C17 *)

\* The error codes the server gives to its other failures.
OtherErrorCodes ==
    {"InvalidRequest", "InvalidParams", "InternalError", "MethodNotFound"}

\* An error that says the deadline was exceeded, and that no other failure
\* of the server can be taken for.
IsTimeoutError(outcome) ==
    /\ outcome.kind = "throw"
    /\ \/ outcome.class = "TimeoutError"
       \/ outcome.class = "McpError" /\ outcome.code \notin OtherErrorCodes

\* C17: when the request of a generation call exceeds its deadline, the call
\* ends in a TimeoutError, which the caller can tell from the other
\* transport failures and from the generic internal error.
C17_TimeoutError ==
    \A i \in Slots :
        (Generation(i) /\ calls[i].overdue) =>
            (Finished(i) /\ IsTimeoutError(calls[i].outcome))

\* What does hold: the deadline changes nothing.  The call stays pending
\* until the upstream answers or the connection fails, and then ends as a
\* call that was answered in time.
C17_DeadlineIgnored ==
    \A i \in Slots :
        (Generation(i) /\ calls[i].overdue) =>
            /\ ~IsTimeoutError(calls[i].outcome)
            /\ Finished(i) =>
                   calls[i].outcome
                       = Dispatch(GenerationSettle(calls[i].tool, calls[i].args,
                                                   calls[i].request,
                                                   calls[i].response))

\* A call answered after its deadline ended in the success envelope.
C17_LateSuccess ==
    \E i \in Slots :
        /\ Generation(i) /\ calls[i].overdue /\ Finished(i)
        /\ calls[i].request.timeout = 5000
        /\ calls[i].outcome.kind = "return"

----------------------------------------------------------------------------
(* C18 *)

\* C18: once the configuration is resolved, its apiKey, baseUrl and timeout
\* never change for the rest of the process: no tool call, a validate_api_key
\* with an api_key override and a call that fails included, resolves it
\* again or modifies it, and it stays what the environment gave at first.
C18_ConfigImmutable ==
    /\ [][config.loaded => config' = config]_vars
    /\ [](config.loaded => config = LoadConfig(env).config)

\* A validate_api_key with an override was answered and the configured key
\* is still the one of the environment.
C18_Witness ==
    \E i \in Slots :
        /\ ValidateChecking(i) /\ Finished(i)
        /\ calls[i].args.obj.api_key = JStr("sk-override")
        /\ calls[i].request.authorization = "Bearer sk-override"
        /\ config.loaded
        /\ config.apiKey = "sk-test"

----------------------------------------------------------------------------
(* C19 *)

\* The request that the arguments of the call in slot i and the cached
\* configuration determine.
OwnRequest(i) ==
    LET c == calls[i]
    IN  IF c.tool \in GenerationTools
        THEN GenerationBegin(c.tool, c.args, config, env).request
        ELSE IF c.tool = "validate_api_key"
        THEN ValidateBegin(c.args, config).request
        ELSE NoRequest

\* Two calls are in flight at once.
Concurrent(i, j) ==
    i # j /\ calls[i].pc # "idle" /\ calls[j].pc # "idle"

\* C19: in every interleaving of tool calls that are in flight at the same
\* time, the request and the outcome of each call are determined by its own
\* arguments, the cached configuration and the upstream's answer to it, and a
\* step of one call leaves every other call as it was.
C19_CallsIndependent ==
    /\ [](\A i \in Slots :
            calls[i].pc # "idle" =>
                /\ calls[i].request = OwnRequest(i)
                /\ Finished(i) => calls[i].outcome = Dispatch(HandlerResult(i)))
    /\ [][\A i \in Slots :
            (calls'[i] # calls[i] /\ phase' # "exited") =>
                /\ \A j \in Slots \ {i} : calls'[j] = calls[j]
                /\ config' = config]_vars

\* Two text_to_audio calls with different durations were in flight together;
\* one was answered first and its result has its own duration.
C19_Witness ==
    \E i, j \in Slots :
        /\ Concurrent(i, j)
        /\ calls[i].tool = "text_to_audio" /\ calls[j].tool = "text_to_audio"
        /\ calls[i].args.obj.duration = JNum(30, 0)
        /\ Omitted(calls[j].args.obj.duration)
        /\ calls[j].pc = "fetch"
        /\ Finished(i)
        /\ calls[i].outcome.kind = "return"
        /\ calls[i].outcome.envelope.result.duration = JNum(30, 0)

\* A text_to_audio call had its status and awaited its body while a
\* validate_api_key call, requested after it, was answered; the validation
\* ended with its own outcome.
C19_WitnessBetween ==
    \E i, j \in Slots :
        /\ Concurrent(i, j)
        /\ calls[i].tool = "text_to_audio"
        /\ calls[i].pc = "body"
        /\ calls[i].response = Headers(200)
        /\ calls[j].tool = "validate_api_key"
        /\ Finished(j)
        /\ calls[j].response = Headers(401)
        /\ calls[j].outcome
               = Returned(InvalidEnvelope("Invalid API key",
                                          <<"Authentication failed">>))

----------------------------------------------------------------------------
(* C20 *)

\* The api_key override of the call in slot i, when it has one.
Override(i) == calls[i].args.obj.api_key

\* The key validate_api_key checks in slot i: the override when it is truthy,
\* the configured key otherwise.
KeyOf(i) == IF Truthy(Override(i)) THEN Override(i) ELSE JStr(config.apiKey)

\* C20: validate_api_key issues one request at most, and the request it
\* issues is a GET to {baseUrl}/api/credits whose bearer token is the api_key
\* override when one is supplied (as its text, when it is not a string) and
\* the configured key otherwise, and whose timeout is 10 000 ms whatever the
\* configured timeout is; without an arguments object, and with a key that
\* has no text, it issues none.
C20_ValidateRequest ==
    \A i \in Slots :
        (calls[i].pc # "idle" /\ calls[i].tool = "validate_api_key") =>
            /\ calls[i].nFetch \in {0, 1}
            /\ calls[i].nFetch = 1 =>
                   /\ calls[i].request.method = "GET"
                   /\ calls[i].request.url = config.baseUrl \o "/api/credits"
                   /\ IsString(Override(i)) /\ Override(i).s # "" =>
                          calls[i].request.authorization
                              = "Bearer " \o Override(i).s
                   /\ ~Truthy(Override(i)) =>
                          calls[i].request.authorization
                              = "Bearer " \o config.apiKey
                   /\ HasText(KeyOf(i))
                   /\ calls[i].request.authorization
                          = "Bearer " \o ToText(KeyOf(i))
                   /\ calls[i].request.body = {}
                   /\ calls[i].request.timeout = 10000
            /\ (~calls[i].args.given \/ ~HasText(KeyOf(i))) =>
                   /\ calls[i].nFetch = 0
                   /\ calls[i].request = NoRequest
                   /\ Finished(i)

\* With MMAUDIO_TIMEOUT=5000, the override went out as the bearer token of a
\* request with the timeout 10000.
C20_Witness ==
    \E i \in Slots :
        /\ ValidateChecking(i)
        /\ config.timeout = 5000
        /\ Override(i) = JStr("sk-override")
        /\ calls[i].request.authorization = "Bearer sk-override"
        /\ calls[i].request.timeout = 10000

\* The override {"toString": 1} has no text: no request was issued, and the
\* call returned the envelope of a failed validation.
C20_WitnessNoText ==
    \E i \in Slots :
        /\ calls[i].tool = "validate_api_key" /\ Finished(i)
        /\ Override(i) = JObjectOwnToString
        /\ calls[i].nFetch = 0
        /\ calls[i].request = NoRequest
        /\ calls[i].outcome
               = Returned(InvalidEnvelope("Failed to validate API key",
                     <<"Cannot convert object to primitive value">>))

\* The override {"message": "boom"}, an object that has a text, went out as
\* the bearer token `[object Object]`.
C20_WitnessObject ==
    \E i \in Slots :
        /\ ValidateChecking(i)
        /\ Override(i) = JObject
        /\ calls[i].request.authorization = "Bearer [object Object]"

\* With MMAUDIO_BASE_URL set and no override, the configured key went to the
\* configured base URL.
C20_WitnessConfigured ==
    \E i \in Slots :
        /\ ValidateChecking(i)
        /\ Omitted(Override(i))
        /\ calls[i].request.url = "https://alt.example/api/credits"
        /\ calls[i].request.authorization = "Bearer sk-test"

\* The override 5, a number, went out as the bearer token `5`.
C20_WitnessNumber ==
    \E i \in Slots :
        /\ ValidateChecking(i)
        /\ Override(i) = JNum(5, 0)
        /\ calls[i].request.authorization = "Bearer 5"

----------------------------------------------------------------------------
(* C21 *)

NoKeyError == McpError("InvalidRequest", <<"No API key provided">>)

\* A call starts in slot i.
Begins(i) == calls[i].pc = "idle" /\ calls'[i].pc # "idle"

\* C21: in every reachable state of the server process in which a tool call
\* is being handled the configuration is resolved, the transport being
\* connected only after loadConfig succeeded in start(); so no call resolves
\* the configuration lazily, and validate_api_key never takes its
\* 'No API key provided' branch.
C21_ConfiguredWhenServing ==
    /\ [](phase \in {"connecting", "running"} =>
              (config.loaded /\ config.apiKey # ""))
    /\ [](\A i \in Slots :
            calls[i].pc # "idle" =>
                /\ phase = "running"
                /\ config.loaded
                /\ calls[i].outcome # NoKeyError
                /\ ~IsConfigurationError(calls[i].outcome))
    /\ [][\A i \in Slots :
            Begins(i) => (config.loaded /\ config' = config)]_vars

\* validate_api_key with an empty api_key is in flight in the running
\* server, with the configured key for its bearer token.
C21_Witness ==
    \E i \in Slots :
        /\ phase = "running"
        /\ ValidateChecking(i)
        /\ calls[i].args.given
        /\ Override(i) = JStr("")
        /\ calls[i].request.authorization = "Bearer " \o config.apiKey
        /\ config.loaded

\* A generation call was handled in the running server.
C21_WitnessGeneration ==
    \E i \in Slots :
        /\ phase = "running"
        /\ Generation(i)
        /\ calls[i].nFetch = 1
        /\ calls[i].request.authorization = "Bearer sk-alt"

----------------------------------------------------------------------------
(* C22 *)

\* The credits endpoint answered the call in slot i with a 2xx status and a
\* body that JSON.parse accepts.
AnsweredWithJson(i) ==
    /\ calls[i].response.kind = "response"
    /\ Ok(calls[i].response)
    /\ calls[i].response.parses

\* C22: validate_api_key returns valid = true only when the credits endpoint
\* answered with a 2xx status and a JSON body; every other outcome of its
\* request, a 403, a 429 or a 5xx that says nothing about the key included,
\* is reported as valid = false.
C22_ValidOnlyOn2xxJson ==
    \A i \in Slots :
        (ValidateChecking(i) /\ Finished(i)) =>
            /\ calls[i].outcome.kind = "return"
            /\ calls[i].outcome.envelope.valid = TRUE => AnsweredWithJson(i)
            /\ ~AnsweredWithJson(i) =>
                   /\ calls[i].outcome.envelope.valid = FALSE
                   /\ calls[i].outcome.envelope.success = FALSE

\* More precisely: valid is true exactly on a 2xx with a JSON body that is
\* not null (data.credits of null throws, and the catch reports valid false).
C22_ValidExactly ==
    \A i \in Slots :
        (ValidateChecking(i) /\ Finished(i)) =>
            (calls[i].outcome.envelope.valid
                 <=> (AnsweredWithJson(i) /\ calls[i].response.json.t # "null"))

\* A 429 with a JSON body was reported as valid = false.
C22_Witness ==
    \E i \in Slots :
        /\ ValidateChecking(i) /\ Finished(i)
        /\ calls[i].response.kind = "response"
        /\ calls[i].response.status = 429
        /\ calls[i].response.parses
        /\ calls[i].outcome.kind = "return"
        /\ calls[i].outcome.envelope.valid = FALSE
        /\ calls[i].outcome.envelope.error[1] = "HTTP 429"

\* A 200 with {"credits": 100} was reported as valid = true.
C22_WitnessValid ==
    \E i \in Slots :
        /\ ValidateChecking(i) /\ Finished(i)
        /\ calls[i].response.status = 200
        /\ calls[i].response.text = "{\"credits\":100}"
        /\ calls[i].outcome.kind = "return"
        /\ calls[i].outcome.envelope.valid = TRUE
        /\ calls[i].outcome.envelope.credits = JNum(100, 0)

====
